---- MODULE Spec2Model ----
(***************************************************************************)
(* A model of mytool (src/main.go, v3): the tool-call protocol, the        *)
(* three-state permission mode, the operation handlers, the undo stack     *)
(* and the chat loop.                                                      *)
(*                                                                         *)
(* Strings are sequences of one-character strings, so that strings.Index,  *)
(* strings.SplitN, strings.TrimSpace and the slicing of the response are   *)
(* computed the way the Go code computes them.  Formatted result texts are *)
(* sequences of pieces: a literal piece is a TLA+ string, an interpolated  *)
(* value (%s) is kept as the value.                                        *)
(*                                                                         *)
(* Left out: the SIGINT handler of main, the /settings and /mcp menus and  *)
(* the launches that only print (version, help, sessions, memory).  The    *)
(* model server's replies and the answers typed at a confirmation prompt   *)
(* are inputs, drawn from Responses and Answers.                           *)
(***************************************************************************)
EXTENDS Integers, Sequences, FiniteSets, TLC

(***************************************************************************)
(* Bounds of the model.                                                    *)
(***************************************************************************)
MaxInputs == 1      \* lines typed at the main prompt
MaxPieces == 4      \* pieces of text a parser input is assembled from
MaxBody == 4        \* characters between the markers of a directive
UndoInputs == 2     \* lines typed at the main prompt where undo is looked at

(***************************************************************************)
(* strings                                                                 *)
(***************************************************************************)
Min(S) == CHOOSE x \in S : \A y \in S : x <= y

\* s[a:b] of Go (0-based, b exclusive)
Slice(s, a, b) == SubSeq(s, a + 1, b)

\* strings.Index: the 0-based index of the first occurrence of sub, or -1
Index(s, sub) ==
    LET First(hits) == IF hits = {} THEN -1 ELSE Min(hits)
    IN  First({i \in 0..(Len(s) - Len(sub)) : SubSeq(s, i + 1, i + Len(sub)) = sub})

Contains(s, sub) == Index(s, sub) # -1

HasPrefix(s, p) == Len(s) >= Len(p) /\ SubSeq(s, 1, Len(p)) = p

IsSpace(c) == c \in {" ", "\n", "\t", "\r"}

RECURSIVE TrimLeft(_)
TrimLeft(s) == IF s # <<>> /\ IsSpace(Head(s)) THEN TrimLeft(Tail(s)) ELSE s

RECURSIVE TrimRight(_)
TrimRight(s) ==
    IF s # <<>> /\ IsSpace(s[Len(s)]) THEN TrimRight(SubSeq(s, 1, Len(s) - 1)) ELSE s

\* a TrimSpace that leaves the trailing whitespace
TrimSpaceLeading(s) == TrimLeft(s)

\* strings.TrimSpace
TrimSpace(s) == TrimRight(TrimLeft(s))

\* strings.ToLower on the letters the model uses
ToLowerChar(c) ==
    CASE c = "Y" -> "y"
      [] c = "N" -> "n"
      [] OTHER -> c

ToLower(s) == [i \in 1..Len(s) |-> ToLowerChar(s[i])]

\* a split at every separator, whatever n
RECURSIVE SplitEvery(_, _, _)
SplitEvery(s, sep, n) ==
    LET At(i) == IF i = -1 THEN <<s>>
                 ELSE <<Slice(s, 0, i)>> \o SplitEvery(Slice(s, i + Len(sep), Len(s)), sep, n)
    IN  At(Index(s, sep))

\* strings.SplitN(s, sep, n) for n >= 1 and a non-empty sep
RECURSIVE SplitN(_, _, _)
SplitN(s, sep, n) ==
    LET At(i) == IF n <= 1 \/ i = -1
                 THEN <<s>>
                 ELSE <<Slice(s, 0, i)>> \o SplitN(Slice(s, i + Len(sep), Len(s)), sep, n - 1)
    IN  At(Index(s, sep))

\* strings.Replace(s, old, new, 1), called only when old occurs in s
\* a replacement of every occurrence
RECURSIVE ReplaceEvery(_, _, _)
ReplaceEvery(s, old, new) ==
    LET At(i) == IF i = -1 \/ old = <<>> THEN s
                 ELSE Slice(s, 0, i) \o new
                      \o ReplaceEvery(Slice(s, i + Len(old), Len(s)), old, new)
    IN  At(Index(s, old))

ReplaceFirst(s, old, new) ==
    LET At(i) == IF i = -1 THEN s
                 ELSE Slice(s, 0, i) \o new \o Slice(s, i + Len(old), Len(s))
    IN  At(Index(s, old))

RECURSIVE Concat(_)
Concat(ss) == IF ss = <<>> THEN <<>> ELSE Head(ss) \o Concat(Tail(ss))

(***************************************************************************)
(* the directive markers and separators                                    *)
(***************************************************************************)
OpenTag == <<"<", "t", "o", "o", "l", ">">>
CloseTag == <<"<", "/", "t", "o", "o", "l", ">">>
Colon == <<":">>
Bars == <<"|", "|", "|">>

(***************************************************************************)
(* paths (path/filepath)                                                   *)
(***************************************************************************)
Slash == <<"/">>
Dot == <<".">>
DotDot == <<".", ".">>
Tilde == <<"~", "/">>

\* strings.Split(s, "/")
RECURSIVE Segments(_)
Segments(s) ==
    LET At(i) == IF i = -1 THEN <<s>>
                 ELSE <<Slice(s, 0, i)>> \o Segments(Slice(s, i + 1, Len(s)))
    IN  At(Index(s, Slash))

RECURSIVE JoinSegs(_)
JoinSegs(segs) ==
    IF segs = <<>> THEN <<>>
    ELSE IF Len(segs) = 1 THEN segs[1]
    ELSE segs[1] \o Slash \o JoinSegs(Tail(segs))

\* filepath.IsAbs
IsAbs(p) == HasPrefix(p, Slash)

\* the element stack of filepath.Clean: "." and "" are dropped, ".." removes
\* the element before it, is dropped at the root and is kept in front of a
\* relative path
RECURSIVE CleanSegs(_, _, _)
CleanSegs(segs, acc, rooted) ==
    IF segs = <<>> THEN acc
    ELSE LET e == Head(segs)
             rest == Tail(segs)
         IN  IF e = <<>> \/ e = Dot THEN CleanSegs(rest, acc, rooted)
             ELSE IF e = DotDot
             THEN IF acc # <<>> /\ acc[Len(acc)] # DotDot
                  THEN CleanSegs(rest, SubSeq(acc, 1, Len(acc) - 1), rooted)
                  ELSE IF rooted THEN CleanSegs(rest, acc, rooted)
                  ELSE CleanSegs(rest, Append(acc, e), rooted)
             ELSE CleanSegs(rest, Append(acc, e), rooted)

\* filepath.Clean
Clean(p) ==
    LET Rooted(body) == Slash \o body
        Relative(body) == IF body = <<>> THEN Dot ELSE body
    IN  IF p = <<>> THEN Dot
        ELSE IF IsAbs(p) THEN Rooted(JoinSegs(CleanSegs(Segments(p), <<>>, TRUE)))
        ELSE Relative(JoinSegs(CleanSegs(Segments(p), <<>>, FALSE)))

\* filepath.Join(a, b): empty elements are ignored, the result is cleaned
Join(a, b) ==
    IF a = <<>> /\ b = <<>> THEN <<>>
    ELSE Clean(IF a = <<>> THEN b ELSE IF b = <<>> THEN a ELSE a \o Slash \o b)

\* filepath.Dir
Dir(p) ==
    LET Upto(segs) == Clean(Slice(p, 0, Len(p) - Len(segs[Len(segs)])))
    IN  Upto(Segments(p))

\* filepath.Base of a clean path
Base(p) ==
    LET LastOf(segs) == segs[Len(segs)]
    IN  LastOf(Segments(p))

HomeDir == <<"/", "h">>     \* os.UserHomeDir() and $HOME
TempDir == <<"/", "t">>     \* os.TempDir()

\* resolvePath without the closing filepath.Clean
resolvePathUncleaned(dir, path) ==
    LET Abs(p) == IF ~IsAbs(p) THEN Join(dir, p) ELSE p
    IN  Abs(IF HasPrefix(path, Tilde) THEN Join(HomeDir, Slice(path, 2, Len(path))) ELSE path)

\* resolvePath
resolvePath(dir, path) ==
    LET Abs(p) == Clean(IF ~IsAbs(p) THEN Join(dir, p) ELSE p)
    IN  Abs(IF HasPrefix(path, Tilde) THEN Join(HomeDir, Slice(path, 2, Len(path))) ELSE path)

(***************************************************************************)
(* the filesystem: a function from the existing absolute paths to          *)
(* [dir |-> BOOLEAN, data |-> string]                                      *)
(***************************************************************************)
Root == <<"/">>
DirNode == [dir |-> TRUE, data |-> <<>>]
FileNode(data) == [dir |-> FALSE, data |-> data]

Exists(f, p) == p \in DOMAIN f
IsDir(f, p) == p \in DOMAIN f /\ f[p].dir
IsFile(f, p) == p \in DOMAIN f /\ ~f[p].dir

Put(f, p, node) == [q \in DOMAIN f \cup {p} |-> IF q = p THEN node ELSE f[q]]
Del(f, p) == [q \in DOMAIN f \ {p} |-> f[q]]

\* os.ReadFile: fails on a missing path and on a directory
ReadFile(f, p) ==
    IF IsFile(f, p) THEN [ok |-> TRUE, data |-> f[p].data]
    ELSE [ok |-> FALSE, data |-> <<>>]

\* os.MkdirAll: creates the missing ancestors; fails under a regular file
RECURSIVE MkdirAll(_, _)
MkdirAll(f, p) ==
    LET Under(up) == IF up.ok THEN [ok |-> TRUE, fs |-> Put(up.fs, p, DirNode)]
                     ELSE [ok |-> FALSE, fs |-> up.fs]
    IN  IF IsDir(f, p) THEN [ok |-> TRUE, fs |-> f]
        ELSE IF Exists(f, p) \/ p = Root \/ ~IsAbs(p) THEN [ok |-> FALSE, fs |-> f]
        ELSE Under(MkdirAll(f, Dir(p)))

\* open(2) for writing with O_CREATE: the parent must be a directory and the
\* path must not be one
CanOpenForWrite(f, p) == ~IsDir(f, p) /\ p # Root /\ IsDir(f, Dir(p))

\* os.WriteFile (O_WRONLY|O_CREATE|O_TRUNC)
WriteFile(f, p, data) ==
    IF CanOpenForWrite(f, p) THEN [ok |-> TRUE, fs |-> Put(f, p, FileNode(data))]
    ELSE [ok |-> FALSE, fs |-> f]

\* os.OpenFile(O_APPEND|O_CREATE|O_WRONLY), WriteString, Close; on a failed
\* open the nil *os.File makes WriteString and Close return an error
AppendFile(f, p, data) ==
    IF CanOpenForWrite(f, p)
    THEN [ok |-> TRUE,
          fs |-> Put(f, p, FileNode((IF IsFile(f, p) THEN f[p].data ELSE <<>>) \o data))]
    ELSE [ok |-> FALSE, fs |-> f]

Children(f, p) == {q \in DOMAIN f : q # Root /\ Dir(q) = p}

\* os.Remove: a file or an empty directory
Remove(f, p) ==
    IF IsFile(f, p) \/ (IsDir(f, p) /\ p # Root /\ Children(f, p) = {})
    THEN [ok |-> TRUE, fs |-> Del(f, p)]
    ELSE [ok |-> FALSE, fs |-> f]

(***************************************************************************)
(* result texts                                                            *)
(***************************************************************************)
Lit(s) == [lit |-> s]
Val(v) == [val |-> v]
Text(s) == <<Lit(s)>>
HasPiece(result, s) == \E i \in 1..Len(result) : result[i] = Lit(s)

(***************************************************************************)
(* the process-wide state the handlers work on, as one record:             *)
(* mode = currentMode, dir = currentDir, ptype = projectType, fs,          *)
(* undo = undoStack, mem = memory                                          *)
(***************************************************************************)
ModeAuto == "auto"
ModeAsk == "ask"
ModeManual == "manual"
Modes == {ModeAuto, ModeAsk, ModeManual}

UndoCap == 20

\* what a handler returns and did: the new state, the result text, the
\* programs it spawned, the filesystem calls that write, the confirmation
\* prompts it printed, the network requests it made, and whether it panicked
Out(w, result, spawn, wr, ask, net) ==
    [w |-> w, result |-> result, spawn |-> spawn, wr |-> wr, ask |-> ask, net |-> net,
     panic |-> FALSE]
Pure(w, result) == Out(w, result, <<>>, 0, 0, 0)
\* a run-time panic: the process dies inside the handler
Panic(w) == [Pure(w, <<>>) EXCEPT !.panic = TRUE]

\* an answer check that takes every answer starting with y for yes
AffirmativePrefix(input) == HasPrefix(ToLower(TrimSpace(input)), <<"y">>)

\* the answer read from standard input counts as yes
Affirmative(input) == ToLower(TrimSpace(input)) = <<"y">>

\* a saveForUndo that also puts the mode back to auto
saveForUndoResetsMode(w, path) ==
    LET Snapshot(fullPath, rd) ==
            [Type |-> "file", Path |-> fullPath, Content |-> IF rd.ok THEN rd.data ELSE <<>>]
        At(fullPath) ==
            [w EXCEPT !.mode = ModeAuto,
                      !.undo = Append(w.undo, Snapshot(fullPath, ReadFile(w.fs, fullPath)))]
    IN  At(resolvePath(w.dir, path))

\* a saveForUndo that never drops an entry
saveForUndoUncapped(w, path) ==
    LET Snapshot(fullPath, rd) ==
            [Type |-> "file", Path |-> fullPath, Content |-> IF rd.ok THEN rd.data ELSE <<>>]
        At(fullPath) ==
            [w EXCEPT !.undo = Append(w.undo, Snapshot(fullPath, ReadFile(w.fs, fullPath)))]
    IN  At(resolvePath(w.dir, path))

\* a saveForUndo that drops the new entry when the ledger is full
saveForUndoKeepsOldest(w, path) ==
    LET Capped(pushed) == IF Len(pushed) > UndoCap THEN SubSeq(pushed, 1, UndoCap) ELSE pushed
        Snapshot(fullPath, rd) ==
            [Type |-> "file", Path |-> fullPath, Content |-> IF rd.ok THEN rd.data ELSE <<>>]
        At(fullPath) ==
            [w EXCEPT !.undo = Capped(Append(w.undo, Snapshot(fullPath, ReadFile(w.fs, fullPath))))]
    IN  At(resolvePath(w.dir, path))

\* saveForUndo
saveForUndo(w, path) ==
    LET Capped(pushed) == IF Len(pushed) > UndoCap THEN Tail(pushed) ELSE pushed
        Snapshot(fullPath, rd) ==
            [Type |-> "file", Path |-> fullPath, Content |-> IF rd.ok THEN rd.data ELSE <<>>]
        At(fullPath) ==
            [w EXCEPT !.undo = Capped(Append(w.undo, Snapshot(fullPath, ReadFile(w.fs, fullPath))))]
    IN  At(resolvePath(w.dir, path))

\* a doUndo without the check for the empty ledger: taking the last entry of
\* an empty slice panics
doUndoUnchecked(w) ==
    LET Undo(action, w1) ==
            IF action.Content = <<>>
            THEN Out([w1 EXCEPT !.fs = Remove(w.fs, action.Path).fs],
                     <<Lit("Undone: removed "), Val(action.Path)>>, <<>>, 1, 0, 0)
            ELSE Out([w1 EXCEPT !.fs = WriteFile(w.fs, action.Path, action.Content).fs],
                     <<Lit("Undone: restored "), Val(action.Path)>>, <<>>, 1, 0, 0)
    IN  IF Len(w.undo) = 0 THEN Panic(w)
        ELSE Undo(w.undo[Len(w.undo)],
                  [w EXCEPT !.undo = SubSeq(w.undo, 1, Len(w.undo) - 1)])

\* an undo that writes the snapshot back whatever it holds
doUndoWritesBack(w) ==
    LET Undo(action, w1) ==
            Out([w1 EXCEPT !.fs = WriteFile(w.fs, action.Path, action.Content).fs],
                <<Lit("Undone: restored "), Val(action.Path)>>, <<>>, 1, 0, 0)
    IN  IF Len(w.undo) = 0 THEN Pure(w, Text("Nothing to undo"))
        ELSE Undo(w.undo[Len(w.undo)],
                  [w EXCEPT !.undo = SubSeq(w.undo, 1, Len(w.undo) - 1)])

\* a doUndo that looks for the file's name under the current directory
doUndoInCurrentDir(w) ==
    LET Here(action) == Join(w.dir, Base(action.Path))
        Undo(action, w1) ==
            IF action.Content = <<>>
            THEN Out([w1 EXCEPT !.fs = Remove(w.fs, Here(action)).fs],
                     <<Lit("Undone: removed "), Val(action.Path)>>, <<>>, 1, 0, 0)
            ELSE Out([w1 EXCEPT !.fs = WriteFile(w.fs, Here(action), action.Content).fs],
                     <<Lit("Undone: restored "), Val(action.Path)>>, <<>>, 1, 0, 0)
    IN  IF Len(w.undo) = 0 THEN Pure(w, Text("Nothing to undo"))
        ELSE Undo(w.undo[Len(w.undo)],
                  [w EXCEPT !.undo = SubSeq(w.undo, 1, Len(w.undo) - 1)])

\* doUndo
doUndo(w) ==
    LET Undo(action, w1) ==
            IF action.Content = <<>>
            THEN Out([w1 EXCEPT !.fs = Remove(w.fs, action.Path).fs],
                     <<Lit("Undone: removed "), Val(action.Path)>>, <<>>, 1, 0, 0)
            ELSE Out([w1 EXCEPT !.fs = WriteFile(w.fs, action.Path, action.Content).fs],
                     <<Lit("Undone: restored "), Val(action.Path)>>, <<>>, 1, 0, 0)
    IN  IF Len(w.undo) = 0 THEN Pure(w, Text("Nothing to undo"))
        ELSE Undo(w.undo[Len(w.undo)],
                  [w EXCEPT !.undo = SubSeq(w.undo, 1, Len(w.undo) - 1)])

(***************************************************************************)
(* The environment of one handler call: o.ans is the line the user types   *)
(* at a confirmation prompt, o.ok whether the external process or request  *)
(* succeeds, o.order the iteration order of the Go map in detectProject.   *)
(***************************************************************************)
GoMod == <<"g", "o", ".", "m", "o", "d">>
Makefile == <<"M", "a", "k", "e", "f", "i", "l", "e">>
DotGit == <<".", "g", "i", "t">>

\* the marker files of detectProject the model's filesystem can hold
Checks == {[file |-> GoMod, ptype |-> "go"], [file |-> Makefile, ptype |-> "make"]}

\* detectProject: the first marker file, in map order, that exists
detectProject(w, order) ==
    LET Pick(present) ==
            IF present # {}
            THEN [w EXCEPT !.ptype =
                     order[Min({i \in 1..Len(order) : \E c \in present : c.ptype = order[i]})]]
            ELSE IF Exists(w.fs, Join(w.dir, DotGit)) THEN [w EXCEPT !.ptype = "git"]
            ELSE [w EXCEPT !.ptype = ""]
    IN  Pick({c \in Checks : Exists(w.fs, Join(w.dir, c.file))})

ProcOutput(o) == IF o.ok THEN <<"o">> ELSE <<>>

\* cmdRead
cmdRead(w, path, o) ==
    LET Show(fullPath, rd) ==
            IF ~rd.ok THEN Pure(w, <<Lit("Error: "), Val(fullPath)>>)
            ELSE Pure(w, <<Lit("--- "), Val(fullPath), Lit(" lines ---"), Val(rd.data)>>)
        At(fullPath) == Show(fullPath, ReadFile(w.fs, fullPath))
    IN  IF path = <<>> THEN Pure(w, Text("Usage: /read <file>"))
        ELSE At(resolvePath(w.dir, path))

\* cmdList
cmdList(w, path, o) ==
    LET At(p) == IF ~IsDir(w.fs, p) THEN Pure(w, <<Lit("Error: "), Val(p)>>)
                 ELSE Pure(w, <<Val(p), Val(Children(w.fs, p)), Lit(" dirs, files")>>)
    IN  At(IF path = <<>> THEN w.dir ELSE resolvePath(w.dir, path))

\* a cmdRun that starts the shell in the directory the process started in
cmdRunAtStart(w, command, o) ==
    IF command = <<>> THEN Pure(w, Text("Usage: /run <command>"))
    ELSE IF w.mode = ModeManual
    THEN Pure(w, <<Lit("colorRed"), Lit("[blocked]"), Lit(" Manual mode"), Lit("colorReset")>>)
    ELSE IF w.mode = ModeAsk /\ ~Affirmative(o.ans)
    THEN Out(w, Text("Cancelled"), <<>>, 0, 1, 0)
    ELSE Out(w,
             <<Val(ProcOutput(o))>> \o (IF o.ok THEN <<>> ELSE <<Lit("Exit: ")>>),
             <<[prog |-> "sh", arg |-> command, dir |-> <<"/", "w">>]>>,
             0, IF w.mode = ModeAsk THEN 1 ELSE 0, 0)

\* cmdRun
cmdRun(w, command, o) ==
    IF command = <<>> THEN Pure(w, Text("Usage: /run <command>"))
    ELSE IF w.mode = ModeManual
    THEN Pure(w, <<Lit("colorRed"), Lit("[blocked]"), Lit(" Manual mode"), Lit("colorReset")>>)
    ELSE IF w.mode = ModeAsk /\ ~Affirmative(o.ans)
    THEN Out(w, Text("Cancelled"), <<>>, 0, 1, 0)
    ELSE Out(w,
             <<Val(ProcOutput(o))>> \o (IF o.ok THEN <<>> ELSE <<Lit("Exit: ")>>),
             <<[prog |-> "sh", arg |-> command, dir |-> w.dir]>>,
             0, IF w.mode = ModeAsk THEN 1 ELSE 0, 0)

\* a cmdCd that refuses in manual mode
cmdCdGated(w, path, o) ==
    LET To(newPath) ==
            IF ~IsDir(w.fs, newPath) THEN Pure(w, Text("Error: not a directory"))
            ELSE Pure(detectProject([w EXCEPT !.dir = newPath], o.order),
                      <<Lit("-> "), Val(newPath)>>)
    IN  IF w.mode = ModeManual
        THEN Pure(w, <<Lit("colorRed"), Lit("[blocked]"), Lit("colorReset")>>)
        ELSE To(resolvePath(w.dir, IF path = <<>> THEN HomeDir ELSE path))

\* cmdCd
\* a cmdCd that does not look at the target
cmdCdUnchecked(w, path, o) ==
    LET To(newPath) ==
            Pure(detectProject([w EXCEPT !.dir = newPath], o.order),
                 <<Lit("-> "), Val(newPath)>>)
    IN  To(resolvePath(w.dir, IF path = <<>> THEN HomeDir ELSE path))

cmdCd(w, path, o) ==
    LET To(newPath) ==
            IF ~IsDir(w.fs, newPath) THEN Pure(w, Text("Error: not a directory"))
            ELSE Pure(detectProject([w EXCEPT !.dir = newPath], o.order),
                      <<Lit("-> "), Val(newPath)>>)
    IN  To(resolvePath(w.dir, IF path = <<>> THEN HomeDir ELSE path))

\* cmdFind
cmdFind(w, pattern, o) ==
    IF pattern = <<>> THEN Pure(w, Text("Usage: /find <pattern>"))
    ELSE Out(w,
             IF ProcOutput(o) = <<>> THEN Text("No files found")
             ELSE <<Lit("Found "), Val(ProcOutput(o))>>,
             <<[prog |-> "find", arg |-> pattern, dir |-> w.dir]>>, 0, 0, 0)

\* cmdGrep
cmdGrep(w, args, o) ==
    LET parts == SplitN(args, <<" ">>, 2)
        searchPath == IF Len(parts) > 1 THEN resolvePath(w.dir, parts[2]) ELSE w.dir
    IN  Out(w,
            IF ProcOutput(o) = <<>> THEN Text("No matches")
            ELSE <<Lit("Matched "), Val(ProcOutput(o))>>,
            <<[prog |-> "grep", arg |-> parts[1], dir |-> searchPath]>>, 0, 0, 0)

\* walkDir, to the depth the model's filesystem has
RECURSIVE walkDir(_, _, _)
walkDir(f, p, depth) ==
    IF depth >= 3 THEN {}
    ELSE LET shown == {q \in Children(f, p) : ~HasPrefix(Base(q), Dot)}
         IN  shown \cup UNION {walkDir(f, q, depth + 1) : q \in {d \in shown : f[d].dir}}

\* cmdTree
cmdTree(w, path, o) ==
    LET p == IF path = <<>> THEN w.dir ELSE resolvePath(w.dir, path)
    IN  Pure(w, <<Val(p), Val(walkDir(w.fs, p, 0))>>)

Blocked == <<Lit("colorRed"), Lit("[blocked]"), Lit("colorReset")>>

\* a cmdWrite that does not create the parent directories
cmdWriteNoMkdir(w, args, o) ==
    LET parts == SplitN(args, Bars, 2)
    IN  IF Len(parts) < 2 THEN Pure(w, Text("Error: format path|||content"))
        ELSE LET path == TrimSpace(parts[1])
                 content == parts[2]
                 fullPath == resolvePath(w.dir, path)
             IN  IF w.mode = ModeManual THEN Pure(w, Blocked)
                 ELSE IF w.mode = ModeAsk /\ ~Affirmative(o.ans)
                 THEN Out(w, Text("Cancelled"), <<>>, 0, 1, 0)
                 ELSE LET w1 == saveForUndo(w, path)
                          wf == WriteFile(w1.fs, fullPath, content)
                      IN  Out([w1 EXCEPT !.fs = wf.fs],
                              <<Lit("Written: "), Val(fullPath), Val(Len(content)), Lit(" bytes")>>,
                              <<>>, 1, IF w.mode = ModeAsk THEN 1 ELSE 0, 0)

\* a cmdWrite that takes the snapshot after it has written the file
cmdWriteSavesAfter(w, args, o) ==
    LET parts == SplitN(args, Bars, 2)
    IN  IF Len(parts) < 2 THEN Pure(w, Text("Error: format path|||content"))
        ELSE LET path == TrimSpace(parts[1])
                 content == parts[2]
                 fullPath == resolvePath(w.dir, path)
             IN  IF w.mode = ModeManual THEN Pure(w, Blocked)
                 ELSE IF w.mode = ModeAsk /\ ~Affirmative(o.ans)
                 THEN Out(w, Text("Cancelled"), <<>>, 0, 1, 0)
                 ELSE LET md == MkdirAll(w.fs, Dir(fullPath))
                          wf == WriteFile(md.fs, fullPath, content)
                      IN  Out(saveForUndo([w EXCEPT !.fs = wf.fs], path),
                              <<Lit("Written: "), Val(fullPath), Val(Len(content)), Lit(" bytes")>>,
                              <<>>, 2, IF w.mode = ModeAsk THEN 1 ELSE 0, 0)

\* cmdWrite
cmdWrite(w, args, o) ==
    LET parts == SplitN(args, Bars, 2)
    IN  IF Len(parts) < 2 THEN Pure(w, Text("Error: format path|||content"))
        ELSE LET path == TrimSpace(parts[1])
                 content == parts[2]
                 fullPath == resolvePath(w.dir, path)
             IN  IF w.mode = ModeManual THEN Pure(w, Blocked)
                 ELSE IF w.mode = ModeAsk /\ ~Affirmative(o.ans)
                 THEN Out(w, Text("Cancelled"), <<>>, 0, 1, 0)
                 ELSE LET w1 == saveForUndo(w, path)
                          md == MkdirAll(w1.fs, Dir(fullPath))
                          wf == WriteFile(md.fs, fullPath, content)
                      IN  Out([w1 EXCEPT !.fs = wf.fs],
                              <<Lit("Written: "), Val(fullPath), Val(Len(content)), Lit(" bytes")>>,
                              <<>>, 2, IF w.mode = ModeAsk THEN 1 ELSE 0, 0)

\* cmdReplace
cmdReplace(w, args, o) ==
    LET parts == SplitN(args, Bars, 3)
    IN  IF Len(parts) < 3 THEN Pure(w, Text("Error: format path|||old|||new"))
        ELSE LET path == TrimSpace(parts[1])
                 old == parts[2]
                 new == parts[3]
                 fullPath == resolvePath(w.dir, path)
                 rd == ReadFile(w.fs, fullPath)
             IN  IF w.mode = ModeManual THEN Pure(w, Blocked)
                 ELSE IF ~rd.ok THEN Pure(w, <<Lit("Error: "), Val(fullPath)>>)
                 ELSE IF ~Contains(rd.data, old) THEN Pure(w, Text("Text not found"))
                 ELSE IF w.mode = ModeAsk /\ ~Affirmative(o.ans)
                 THEN Out(w, Text("Cancelled"), <<>>, 0, 1, 0)
                 ELSE LET w1 == saveForUndo(w, path)
                          wf == WriteFile(w1.fs, fullPath, ReplaceFirst(rd.data, old, new))
                      IN  Out([w1 EXCEPT !.fs = wf.fs],
                              <<Lit("Replaced in "), Val(fullPath)>>,
                              <<>>, 1, IF w.mode = ModeAsk THEN 1 ELSE 0, 0)

\* a cmdAppend without the manual-mode check
cmdAppendUngated(w, args, o) ==
    LET parts == SplitN(args, Bars, 2)
    IN  IF Len(parts) < 2 THEN Pure(w, Text("Error: format path|||content"))
        ELSE LET w1 == saveForUndo(w, TrimSpace(parts[1]))
                 fullPath == resolvePath(w.dir, TrimSpace(parts[1]))
             IN  Out([w1 EXCEPT !.fs = AppendFile(w1.fs, fullPath, parts[2]).fs],
                     <<Lit("Appended to "), Val(fullPath)>>, <<>>, 1, 0, 0)

\* cmdAppend
cmdAppend(w, args, o) ==
    LET parts == SplitN(args, Bars, 2)
    IN  IF Len(parts) < 2 THEN Pure(w, Text("Error: format path|||content"))
        ELSE LET path == TrimSpace(parts[1])
                 content == parts[2]
                 fullPath == resolvePath(w.dir, path)
             IN  IF w.mode = ModeManual THEN Pure(w, Blocked)
                 ELSE LET w1 == saveForUndo(w, path)
                          af == AppendFile(w1.fs, fullPath, content)
                      IN  Out([w1 EXCEPT !.fs = af.fs],
                              <<Lit("Appended to "), Val(fullPath)>>, <<>>, 1, 0, 0)

\* cmdGit
cmdGit(w, args, o) ==
    LET a == IF args = <<>> THEN <<"s", "t", "a", "t", "u", "s">> ELSE args
    IN  Out(w, <<Val(ProcOutput(o))>>,
            <<[prog |-> "sh", arg |-> <<"g", "i", "t", " ">> \o a, dir |-> w.dir]>>, 0, 0, 0)

\* cmdFetch
cmdFetch(w, url, o) ==
    IF o.ok THEN Out(w, <<Lit("URL: "), Val(url), Val(<<"b">>)>>, <<>>, 0, 0, 1)
    ELSE Out(w, <<Lit("Error: "), Val(url)>>, <<>>, 0, 0, 1)

\* runPython and runNode: the code goes to a file in the temporary
\* directory, the interpreter runs it, the deferred os.Remove deletes it
runCode(w, prog, file, code, o) ==
    LET tmpFile == Join(TempDir, file)
        wf == WriteFile(w.fs, tmpFile, code)
        rm == Remove(wf.fs, tmpFile)
    IN  Out([w EXCEPT !.fs = rm.fs],
            <<Val(ProcOutput(o))>> \o (IF o.ok THEN <<>> ELSE <<Lit("colorRed"), Lit("exit status")>>),
            <<[prog |-> prog, arg |-> tmpFile, dir |-> <<>>]>>, 2, 0, 0)

runPython(w, code, o) == runCode(w, "python3", <<"p", "y">>, code, o)

runNode(w, code, o) == runCode(w, "node", <<"j", "s">>, code, o)

\* webSearch
webSearch(w, query, o) ==
    IF o.ok THEN Out(w, <<Lit("Search: "), Val(query)>>, <<>>, 0, 0, 1)
    ELSE Out(w, <<Lit("Search error: "), Val(query)>>, <<>>, 0, 0, 1)

\* json.MarshalIndent of the memory map (keys in sorted order)
RECURSIVE EncodeMemory(_, _)
EncodeMemory(mem, keys) ==
    IF keys = <<>> THEN <<>>
    ELSE (IF Head(keys) \in DOMAIN mem
          THEN Head(keys) \o Colon \o mem[Head(keys)] \o <<"\n">> ELSE <<>>)
         \o EncodeMemory(mem, Tail(keys))

MemoryKeys == << <<"k">>, <<"m">> >>
MemoryDir == Join(HomeDir, <<".", "m">>)
MemoryFile == Join(MemoryDir, <<"m", "e", "m">>)

\* saveMemory
saveMemory(w) ==
    LET md == MkdirAll(w.fs, MemoryDir)
    IN  [w EXCEPT !.fs = WriteFile(md.fs, MemoryFile, EncodeMemory(w.mem, MemoryKeys)).fs]

\* rememberFact
rememberFact(w, key, value) ==
    saveMemory([w EXCEPT !.mem = [k \in DOMAIN w.mem \cup {key} |-> IF k = key THEN value ELSE w.mem[k]]])

\* forgetFact
forgetFact(w, key) ==
    saveMemory([w EXCEPT !.mem = [k \in DOMAIN w.mem \ {key} |-> w.mem[k]]])

\* the remember case of parseAndExecuteTools
remember(w, toolArg, o) ==
    LET p == SplitN(toolArg, Colon, 2)
    IN  IF Len(p) = 2
        THEN Out(rememberFact(w, p[1], p[2]), <<Lit("Remembered: "), Val(p[1])>>, <<>>, 2, 0, 0)
        ELSE Pure(w, <<>>)

Max(S) == CHOOSE x \in S : \A y \in S : x >= y

\* filepath.Ext: from the last dot of the last element
Ext(p) ==
    LET b == Base(p)
        dots == {i \in 1..Len(b) : b[i] = "."}
    IN  IF dots = {} THEN <<>> ELSE SubSeq(b, Max(dots), Len(b))

MimeExts == { <<".", "j", "p", "g">>, <<".", "j", "p", "e", "g">>, <<".", "p", "n", "g">>,
              <<".", "g", "i", "f">>, <<".", "w", "e", "b", "p">> }

\* len(base64.StdEncoding.EncodeToString(data))
Base64Len(n) == 4 * ((n + 2) \div 3)

\* analyzeImage: b64[:50] is out of range for an encoding shorter than 50
analyzeImage(w, path, o) ==
    LET fullPath == resolvePath(w.dir, path)
        rd == ReadFile(w.fs, fullPath)
    IN  IF ~rd.ok THEN Pure(w, <<Lit("Error: "), Val(fullPath)>>)
        ELSE IF ToLower(Ext(path)) \notin MimeExts
        THEN Pure(w, Text("Error: Unsupported image format"))
        ELSE IF Base64Len(Len(rd.data)) < 50 THEN Panic(w)
        ELSE Pure(w, <<Lit("Image loaded: "), Val(fullPath), Val(Len(rd.data))>>)

(***************************************************************************)
(* the tool names of the switch in parseAndExecuteTools                    *)
(***************************************************************************)
Tool ==
    [read |-> <<"r", "e", "a", "d">>,
     ls |-> <<"l", "s">>,
     run |-> <<"r", "u", "n">>,
     find |-> <<"f", "i", "n", "d">>,
     grep |-> <<"g", "r", "e", "p">>,
     tree |-> <<"t", "r", "e", "e">>,
     write |-> <<"w", "r", "i", "t", "e">>,
     replace |-> <<"r", "e", "p", "l", "a", "c", "e">>,
     append |-> <<"a", "p", "p", "e", "n", "d">>,
     git |-> <<"g", "i", "t">>,
     fetch |-> <<"f", "e", "t", "c", "h">>,
     cd |-> <<"c", "d">>,
     python |-> <<"p", "y", "t", "h", "o", "n">>,
     node |-> <<"n", "o", "d", "e">>,
     search |-> <<"s", "e", "a", "r", "c", "h">>,
     image |-> <<"i", "m", "a", "g", "e">>,
     remember |-> <<"r", "e", "m", "e", "m", "b", "e", "r">>]

\* the switch of parseAndExecuteTools
Dispatch(w, toolName, toolArg, o) ==
    CASE toolName = Tool.read -> cmdRead(w, toolArg, o)
      [] toolName = Tool.ls -> cmdList(w, toolArg, o)
      [] toolName = Tool.run -> cmdRun(w, toolArg, o)
      [] toolName = Tool.find -> cmdFind(w, toolArg, o)
      [] toolName = Tool.grep -> cmdGrep(w, toolArg, o)
      [] toolName = Tool.tree -> cmdTree(w, toolArg, o)
      [] toolName = Tool.write -> cmdWrite(w, toolArg, o)
      [] toolName = Tool.replace -> cmdReplace(w, toolArg, o)
      [] toolName = Tool.append -> cmdAppend(w, toolArg, o)
      [] toolName = Tool.git -> cmdGit(w, toolArg, o)
      [] toolName = Tool.fetch -> cmdFetch(w, toolArg, o)
      [] toolName = Tool.cd -> cmdCd(w, toolArg, o)
      [] toolName = Tool.python -> runPython(w, toolArg, o)
      [] toolName = Tool.node -> runNode(w, toolArg, o)
      [] toolName = Tool.search -> webSearch(w, toolArg, o)
      [] toolName = Tool.image -> analyzeImage(w, toolArg, o)
      [] toolName = Tool.remember -> remember(w, toolArg, o)
      [] OTHER -> Pure(w, <<Lit("Unknown tool: "), Val(toolName)>>)

\* what one operation did, as kept in last.ops: its name and argument, the
\* mode, directory and files it ran on, the answer read at its prompt, its
\* result and its effects
OpRecord(name, arg, w, o, out) ==
    [name |-> name, arg |-> arg, mode |-> w.mode, pre |-> [dir |-> w.dir, fs |-> w.fs],
     ans |-> IF out.ask > 0 THEN o.ans ELSE <<>>,
     result |-> out.result,
     spawn |-> out.spawn, wr |-> out.wr, ask |-> out.ask, net |-> out.net,
     panic |-> out.panic,
     fsSame |-> out.w.fs = w.fs, undoSame |-> out.w.undo = w.undo,
     dirSame |-> out.w.dir = w.dir, modeSame |-> out.w.mode = w.mode]

\* a Scan that cuts one character short of the end of the closing marker
ScanShort(response) ==
    LET start == Index(response, OpenTag)
        rel == IF start = -1 THEN -1
               ELSE Index(Slice(response, start, Len(response)), CloseTag)
    IN  IF start = -1 \/ rel = -1 THEN [found |-> FALSE]
        ELSE LET end == rel + start
                 parts == SplitN(Slice(response, start + 6, end), Colon, 2)
             IN  [found |-> TRUE,
                  toolName |-> TrimSpace(parts[1]),
                  toolArg |-> IF Len(parts) > 1 THEN TrimSpace(parts[2]) ELSE <<>>,
                  rest |-> Slice(response, 0, start) \o Slice(response, end + 6, Len(response))]

\* a Scan that cuts out the call and leaves its two markers in the response
ScanLeavesMarkers(response) ==
    LET start == Index(response, OpenTag)
        rel == IF start = -1 THEN -1
               ELSE Index(Slice(response, start, Len(response)), CloseTag)
    IN  IF start = -1 \/ rel = -1 THEN [found |-> FALSE]
        ELSE LET end == rel + start
                 parts == SplitN(Slice(response, start + 6, end), Colon, 2)
             IN  [found |-> TRUE,
                  toolName |-> TrimSpace(parts[1]),
                  toolArg |-> IF Len(parts) > 1 THEN TrimSpace(parts[2]) ELSE <<>>,
                  rest |-> Slice(response, 0, start + 6) \o Slice(response, end, Len(response))]

\* one pass of the loop of parseAndExecuteTools up to the switch: the first
\* opening marker, the first closing marker after it, the call between them
\* split at the first colon, and the response with the span cut out
Scan(response) ==
    LET start == Index(response, OpenTag)
        rel == IF start = -1 THEN -1
               ELSE Index(Slice(response, start, Len(response)), CloseTag)
    IN  IF start = -1 \/ rel = -1 THEN [found |-> FALSE]
        ELSE LET end == rel + start
                 toolCall == Slice(response, start + 6, end)
                 parts == SplitN(toolCall, Colon, 2)
             IN  [found |-> TRUE,
                  toolName |-> TrimSpace(parts[1]),
                  toolArg |-> IF Len(parts) > 1 THEN TrimSpace(parts[2]) ELSE <<>>,
                  rest |-> Slice(response, 0, start) \o Slice(response, end + 7, Len(response))]

\* a visible text that ends before the first opening marker left
VisibleCutsTail(response) ==
    LET Upto(i) == TrimSpace(IF i = -1 THEN response ELSE Slice(response, 0, i))
    IN  Upto(Index(response, OpenTag))

\* the text parseAndExecuteTools returns when it finds no further span
Visible(response) == TrimSpace(response)

\* fmt.Sprintf("[%s] %s", toolName, result)
Labeled(toolName, result) == <<Lit("["), Val(toolName), Lit("] ")>> \o result

\* The environment of a command: env.stdin holds the lines the user will
\* type after it, in order (a read at the end of the input returns the empty
\* string); env.ok and env.order are as above.
EnvAt(env, stdin) ==
    [ans |-> IF stdin = <<>> THEN <<>> ELSE Head(stdin), ok |-> env.ok, order |-> env.order]

(***************************************************************************)
(* the lines the user types at the main prompt                             *)
(***************************************************************************)
L_save == <<"/", "s", "a", "v", "e">>
L_chat == <<"h", "i">>

UserLines ==
    {
     \* exit
     <<"e", "x", "i", "t">>,
     \* quit
     <<"q", "u", "i", "t">>,
     \* /mode
     <<"/", "m", "o", "d", "e">>,
     \* /undo
     <<"/", "u", "n", "d", "o">>,
     L_save,
     \* /copy
     <<"/", "c", "o", "p", "y">>,
     \* /cost
     <<"/", "c", "o", "s", "t">>,
     \* /context
     <<"/", "c", "o", "n", "t", "e", "x", "t">>,
     \* /memory
     <<"/", "m", "e", "m", "o", "r", "y">>,
     \* /sessions
     <<"/", "s", "e", "s", "s", "i", "o", "n", "s">>,
     \* /export
     <<"/", "e", "x", "p", "o", "r", "t">>,
     \* /forget k
     <<"/", "f", "o", "r", "g", "e", "t", " ", "k">>,
     \* /remember k=v
     <<"/", "r", "e", "m", "e", "m", "b", "e", "r", " ", "k", "=", "v">>,
     \* /python c
     <<"/", "p", "y", "t", "h", "o", "n", " ", "c">>,
     \* /node c
     <<"/", "n", "o", "d", "e", " ", "c">>,
     \* /search q
     <<"/", "s", "e", "a", "r", "c", "h", " ", "q">>,
     \* /img f
     <<"/", "i", "m", "g", " ", "f">>,
     \* /help
     <<"/", "h", "e", "l", "p">>,
     \* /settings
     <<"/", "s", "e", "t", "t", "i", "n", "g", "s">>,
     \* /mcp
     <<"/", "m", "c", "p">>,
     \* /read f
     <<"/", "r", "e", "a", "d", " ", "f">>,
     \* /ls
     <<"/", "l", "s">>,
     \* /run x
     <<"/", "r", "u", "n", " ", "x">>,
     \* /find f
     <<"/", "f", "i", "n", "d", " ", "f">>,
     \* /grep f
     <<"/", "g", "r", "e", "p", " ", "f">>,
     \* /tree
     <<"/", "t", "r", "e", "e">>,
     \* /git x
     <<"/", "g", "i", "t", " ", "x">>,
     \* /cd d
     <<"/", "c", "d", " ", "d">>,
     \* /cd ..
     <<"/", "c", "d", " ", ".", ".">>,
     \* /pwd
     <<"/", "p", "w", "d">>,
     \* /edit g
     <<"/", "e", "d", "i", "t", " ", "g">>,
     \* /clear
     <<"/", "c", "l", "e", "a", "r">>,
     \* /zz
     <<"/", "z", "z">>,
     L_chat
    }

L_cancel == <<"/", "c", "a", "n", "c", "e", "l">>

\* the first line of the user's that is /save or /cancel, 0 when there is none
EditEnd(stdin) ==
    LET ends == {i \in 1..Len(stdin) : stdin[i] \in {L_save, L_cancel}}
    IN  IF ends = {} THEN 0 ELSE Min(ends)

\* cmdEdit: the lines typed up to /save become the file
cmdEdit(w, path, env) ==
    IF path = <<>> THEN Pure(w, Text("Usage: /edit <file>"))
    ELSE LET fullPath == resolvePath(w.dir, path)
             e == EditEnd(env.stdin)
         IN  IF e = 0 \/ env.stdin[e] = L_cancel THEN Pure(w, Text("Cancelled"))
             ELSE LET content == Concat([i \in 1..(e - 1) |-> env.stdin[i] \o <<"\n">>])
                      w1 == saveForUndo(w, path)
                      md == MkdirAll(w1.fs, Dir(fullPath))
                      wf == WriteFile(md.fs, fullPath, content)
                  IN  Out([w1 EXCEPT !.fs = wf.fs],
                          <<Lit("colorGreen"), Lit("Saved")>>, <<>>, 2, 0, 0)

\* handleCommand.  /settings and /mcp open menus over the settings and the
\* server list, which are not part of this model.
handleCommand(w, input, env) ==
    LET parts == SplitN(input, <<" ">>, 2)
        cmd == parts[1]
        arg == IF Len(parts) > 1 THEN TrimSpace(parts[2]) ELSE <<>>
        o == EnvAt(env, env.stdin)
    IN  CASE cmd \in {<<"/", "h", "e", "l", "p">>, <<"/", "?">>} -> Pure(w, Text("/read <f>   Read file ..."))
          [] cmd \in {<<"/", "s", "e", "t", "t", "i", "n", "g", "s">>, <<"/", "m", "c", "p">>} -> Pure(w, <<>>)
          [] cmd \in {<<"/", "r", "e", "a", "d">>, <<"/", "c", "a", "t">>} -> cmdRead(w, arg, o)
          [] cmd \in {<<"/", "l", "s">>, <<"/", "d", "i", "r">>} -> cmdList(w, arg, o)
          [] cmd \in {<<"/", "r", "u", "n">>, <<"/", "e", "x", "e", "c">>, <<"/", "$">>} -> cmdRun(w, arg, o)
          [] cmd = <<"/", "f", "i", "n", "d">> -> cmdFind(w, arg, o)
          [] cmd = <<"/", "g", "r", "e", "p">> -> cmdGrep(w, arg, o)
          [] cmd = <<"/", "t", "r", "e", "e">> -> cmdTree(w, arg, o)
          [] cmd = <<"/", "g", "i", "t">> -> cmdGit(w, arg, o)
          [] cmd = <<"/", "c", "d">> -> cmdCd(w, arg, o)
          [] cmd = <<"/", "p", "w", "d">> -> Pure(w, <<Val(w.dir)>>)
          [] cmd = <<"/", "e", "d", "i", "t">> -> cmdEdit(w, arg, env)
          [] cmd = <<"/", "c", "l", "e", "a", "r">> -> Pure(w, Text("Cleared"))
          [] OTHER -> Pure(w, <<Lit("Unknown: "), Val(cmd)>>)

\* a cycleMode that goes the other way round
cycleModeBackwards(mode) ==
    CASE mode = ModeAuto -> ModeManual
      [] mode = ModeManual -> ModeAsk
      [] mode = ModeAsk -> ModeAuto
      [] OTHER -> mode

\* cycleMode
cycleMode(mode) ==
    CASE mode = ModeAuto -> ModeAsk
      [] mode = ModeAsk -> ModeManual
      [] mode = ModeManual -> ModeAuto
      [] OTHER -> mode

\* getSystemPrompt: the text with the directory, the project kind, the mode
\* and the remembered facts put in
getSystemPrompt(w) ==
    <<Lit("Kamu mytool ... Dir: "), Val(w.dir), Lit(" | Project: "), Val(w.ptype),
      Lit(" | Mode: "), Val(w.mode), Val(w.mem)>>

ChatMessage(role, content) == [Role |-> role, Content |-> content]

\* the case of the switch in runChatWithHistory that takes the input
Kind(input) ==
    IF input \in {<<"e", "x", "i", "t">>, <<"q", "u", "i", "t">>} THEN "exit"
    ELSE IF input = <<"/", "m", "o", "d", "e">> THEN "mode"
    ELSE IF input = <<"/", "u", "n", "d", "o">> THEN "undo"
    ELSE IF input = L_save THEN "save"
    ELSE IF input = <<"/", "c", "o", "p", "y">> THEN "copy"
    ELSE IF input = <<"/", "c", "o", "s", "t">> THEN "cost"
    ELSE IF input = <<"/", "c", "o", "n", "t", "e", "x", "t">> THEN "context"
    ELSE IF input = <<"/", "m", "e", "m", "o", "r", "y">> THEN "memory"
    ELSE IF input = <<"/", "s", "e", "s", "s", "i", "o", "n", "s">> THEN "sessions"
    ELSE IF HasPrefix(input, <<"/", "e", "x", "p", "o", "r", "t">>) THEN "export"
    ELSE IF HasPrefix(input, <<"/", "f", "o", "r", "g", "e", "t", " ">>) THEN "forget"
    ELSE IF HasPrefix(input, <<"/", "r", "e", "m", "e", "m", "b", "e", "r", " ">>) THEN "remember"
    ELSE IF HasPrefix(input, <<"/", "p", "y", "t", "h", "o", "n", " ">>) THEN "python"
    ELSE IF HasPrefix(input, <<"/", "n", "o", "d", "e", " ">>) THEN "node"
    ELSE IF HasPrefix(input, <<"/", "s", "e", "a", "r", "c", "h", " ">>) THEN "search"
    ELSE IF HasPrefix(input, <<"/", "i", "m", "g", " ">>) THEN "img"
    ELSE IF HasPrefix(input, Slash) THEN "command"
    ELSE "chat"

\* strings.TrimPrefix
TrimPrefix(s, p) == IF HasPrefix(s, p) THEN Slice(s, Len(p), Len(s)) ELSE s

VARIABLES
    currentMode,    \* "auto" | "ask" | "manual"
    currentDir,     \* the working directory, an absolute path
    projectType,    \* the detected project kind
    fs,             \* the filesystem: existing path -> [dir, data]
    undoStack,      \* sequence of UndoAction [Type, Path, Content]
    memory,         \* remembered facts: key -> value
    history,        \* the conversation: sequence of ChatMessage [Role, Content]
    sessions,       \* the saved session files: id -> Session
    sessionID,      \* the id this process saves its session under
    turn,           \* where the process is: booting, at the main prompt, or in the
                    \* loop of parseAndExecuteTools with the response being cut
    last,           \* what the most recent input did: its kind and, per operation
                    \* run, the operation's result and effects
    steps           \* lines the user has still to type at the main prompt

vars == <<currentMode, currentDir, projectType, fs, undoStack, memory, history, sessions,
          sessionID, turn, last, steps>>

(***************************************************************************)
(* the responses the completion endpoint streams back                      *)
(***************************************************************************)
Responses ==
    {
     \* ok
     <<"o", "k">>,
     \* <tool>run:x</tool>
     <<"<", "t", "o", "o", "l", ">", "r", "u", "n", ":", "x", "<", "/", "t", "o", "o", "l", ">">>,
     \* <tool>write:g|||B</tool>
     <<"<", "t", "o", "o", "l", ">", "w", "r", "i", "t", "e", ":", "g", "|", "|", "|", "B", "<", "/", "t", "o", "o", "l", ">">>,
     \* <tool>write: f |||B</tool>
     <<"<", "t", "o", "o", "l", ">", "w", "r", "i", "t", "e", ":", " ", "f", " ", "|", "|", "|", "B", "<", "/", "t", "o", "o", "l", ">">>,
     \* <tool>replace:f|||A|||B</tool>
     <<"<", "t", "o", "o", "l", ">", "r", "e", "p", "l", "a", "c", "e", ":", "f", "|", "|", "|", "A", "|", "|", "|", "B", "<", "/", "t", "o", "o", "l", ">">>,
     \* <tool>replace:f|||Z|||B</tool>
     <<"<", "t", "o", "o", "l", ">", "r", "e", "p", "l", "a", "c", "e", ":", "f", "|", "|", "|", "Z", "|", "|", "|", "B", "<", "/", "t", "o", "o", "l", ">">>,
     \* <tool>append:f|||B</tool>
     <<"<", "t", "o", "o", "l", ">", "a", "p", "p", "e", "n", "d", ":", "f", "|", "|", "|", "B", "<", "/", "t", "o", "o", "l", ">">>,
     \* <tool>git:x</tool>
     <<"<", "t", "o", "o", "l", ">", "g", "i", "t", ":", "x", "<", "/", "t", "o", "o", "l", ">">>,
     \* <tool>python:c</tool>
     <<"<", "t", "o", "o", "l", ">", "p", "y", "t", "h", "o", "n", ":", "c", "<", "/", "t", "o", "o", "l", ">">>,
     \* <tool>node:c</tool>
     <<"<", "t", "o", "o", "l", ">", "n", "o", "d", "e", ":", "c", "<", "/", "t", "o", "o", "l", ">">>,
     \* <tool>read:f</tool>
     <<"<", "t", "o", "o", "l", ">", "r", "e", "a", "d", ":", "f", "<", "/", "t", "o", "o", "l", ">">>,
     \* <tool>ls</tool>
     <<"<", "t", "o", "o", "l", ">", "l", "s", "<", "/", "t", "o", "o", "l", ">">>,
     \* <tool>tree:</tool>
     <<"<", "t", "o", "o", "l", ">", "t", "r", "e", "e", ":", "<", "/", "t", "o", "o", "l", ">">>,
     \* <tool>find:f</tool>
     <<"<", "t", "o", "o", "l", ">", "f", "i", "n", "d", ":", "f", "<", "/", "t", "o", "o", "l", ">">>,
     \* <tool>grep:f</tool>
     <<"<", "t", "o", "o", "l", ">", "g", "r", "e", "p", ":", "f", "<", "/", "t", "o", "o", "l", ">">>,
     \* <tool>fetch:u</tool>
     <<"<", "t", "o", "o", "l", ">", "f", "e", "t", "c", "h", ":", "u", "<", "/", "t", "o", "o", "l", ">">>,
     \* <tool>cd:d</tool>
     <<"<", "t", "o", "o", "l", ">", "c", "d", ":", "d", "<", "/", "t", "o", "o", "l", ">">>,
     \* <tool>search:q</tool>
     <<"<", "t", "o", "o", "l", ">", "s", "e", "a", "r", "c", "h", ":", "q", "<", "/", "t", "o", "o", "l", ">">>,
     \* <tool>image:f</tool>
     <<"<", "t", "o", "o", "l", ">", "i", "m", "a", "g", "e", ":", "f", "<", "/", "t", "o", "o", "l", ">">>,
     \* <tool>remember:k:v</tool>
     <<"<", "t", "o", "o", "l", ">", "r", "e", "m", "e", "m", "b", "e", "r", ":", "k", ":", "v", "<", "/", "t", "o", "o", "l", ">">>,
     \* <tool>zz:1</tool>
     <<"<", "t", "o", "o", "l", ">", "z", "z", ":", "1", "<", "/", "t", "o", "o", "l", ">">>,
     \* a <tool>write:g|||B</tool> b <tool> read : g </tool>
     <<"a", " ", "<", "t", "o", "o", "l", ">", "w", "r", "i", "t", "e", ":", "g", "|", "|", "|", "B", "<", "/", "t", "o", "o", "l", ">", " ", "b", " ", "<", "t", "o", "o", "l", ">", " ", "r", "e", "a", "d", " ", ":", " ", "g", " ", "<", "/", "t", "o", "o", "l", ">">>,
     \* <tool>cd:d</tool><tool>append:g|||B</tool>
     <<"<", "t", "o", "o", "l", ">", "c", "d", ":", "d", "<", "/", "t", "o", "o", "l", ">", "<", "t", "o", "o", "l", ">", "a", "p", "p", "e", "n", "d", ":", "g", "|", "|", "|", "B", "<", "/", "t", "o", "o", "l", ">">>,
     \* <tool>run:x</tool><tool>write:f|||B</tool>
     <<"<", "t", "o", "o", "l", ">", "r", "u", "n", ":", "x", "<", "/", "t", "o", "o", "l", ">", "<", "t", "o", "o", "l", ">", "w", "r", "i", "t", "e", ":", "f", "|", "|", "|", "B", "<", "/", "t", "o", "o", "l", ">">>,
     \* a<tool>run:x
     <<"a", "<", "t", "o", "o", "l", ">", "r", "u", "n", ":", "x">>,
     \* <tool>read:q</tool><tool>zz:1</tool>
     <<"<", "t", "o", "o", "l", ">", "r", "e", "a", "d", ":", "q", "<", "/", "t", "o", "o", "l", ">", "<", "t", "o", "o", "l", ">", "z", "z", ":", "1", "<", "/", "t", "o", "o", "l", ">">>,
     \* <tool>write:i.png|||B</tool><tool>image:i.png</tool><tool>ls</tool>
     <<"<", "t", "o", "o", "l", ">", "w", "r", "i", "t", "e", ":", "i", ".", "p", "n", "g", "|", "|", "|", "B", "<", "/", "t", "o", "o", "l", ">", "<", "t", "o", "o", "l", ">", "i", "m", "a", "g", "e", ":", "i", ".", "p", "n", "g", "<", "/", "t", "o", "o", "l", ">", "<", "t", "o", "o", "l", ">", "l", "s", "<", "/", "t", "o", "o", "l", ">">>
    }

\* what sendStream returns: the text streamed, and whether it returned an
\* error (no connection, a timeout before the reply, a status other than
\* 200), in which case the text is empty
Reply(text, failed) == [text |-> text, failed |-> failed]
Replies == {Reply(r, FALSE) : r \in Responses \cup {<<>>}} \cup {Reply(<<>>, TRUE)}

\* the lines the user types at a [y/N] prompt (bufio ReadString keeps the newline)
A_y == <<"y", "\n">>
A_Y == <<"Y", "\n">>
A_ySpaces == <<" ", "y", " ", "\n">>
A_n == <<"n", "\n">>
A_yes == <<"y", "e", "s", "\n">>
A_eof == <<>>
Answers == {A_y, A_Y, A_ySpaces, A_n, A_yes, A_eof}

W0 == <<"/", "w">>                  \* the directory the process starts in
NewSessionID == "s1"                \* generateSessionID

\* the filesystem the process starts on
InitFs ==
    LET paths == {Root, W0, HomeDir, TempDir, Join(W0, <<"d">>), Join(W0, <<"f">>),
                  Join(Join(W0, <<"d">>), GoMod), Join(Join(W0, <<"d">>), Makefile)}
    IN  [p \in paths |->
            IF p = Join(W0, <<"f">>) THEN FileNode(<<"A">>)
            ELSE IF Base(p) \in {GoMod, Makefile} THEN FileNode(<<>>)
            ELSE DirNode]

Orders == {<<"go", "make">>, <<"make", "go">>}

World ==
    [mode |-> currentMode, dir |-> currentDir, ptype |-> projectType, fs |-> fs,
     undo |-> undoStack, mem |-> memory]

SetWorld(w) ==
    /\ currentMode' = w.mode
    /\ currentDir' = w.dir
    /\ projectType' = w.ptype
    /\ fs' = w.fs
    /\ undoStack' = w.undo
    /\ memory' = w.mem

\* the position of the process outside a chat turn
Idle(pc) ==
    [pc |-> pc, original |-> <<>>, response |-> <<>>, results |-> <<>>,
     failed |-> FALSE, requests |-> 0]

\* what the input of this pass of the main loop did
Done(kind, ops) == [kind |-> kind, ops |-> ops]

Env(stdin, ok, order) == [stdin |-> stdin, ok |-> ok, order |-> order]
NoEnv == Env(<<>>, TRUE, <<"go", "make">>)

\* the record of a command that is one handler call
OneOp(kind, name, arg, w, env, out) ==
    Done(IF out.panic THEN "panic" ELSE kind,
         <<OpRecord(name, arg, w, EnvAt(env, env.stdin), out)>>)

\* a handler call with its record: the outcomes of a call under the inputs it
\* may meet are the distinct values of this
Ran(kind, name, arg, w, env, out) ==
    [out |-> out, done |-> OneOp(kind, name, arg, w, env, out)]

\* where the process is after a handler returned or panicked
After(out) == Idle(IF out.panic THEN "dead" ELSE "done")

\* the characters the pattern @([\w./\-_]+) of processAtMentions stops at
NonWord == {" ", "\n", "\t", "@", ":", "|", "<", ">", "=", "~", "[", "]"}

\* the names mentioned as @name, left to right
RECURSIVE Mentions(_)
Mentions(input) ==
    LET at == Index(input, <<"@">>)
    IN  IF at = -1 THEN <<>>
        ELSE LET after == Slice(input, at + 1, Len(input))
                 stops == {i \in 1..Len(after) : after[i] \in NonWord}
                 n == IF stops = {} THEN Len(after) ELSE Min(stops) - 1
             IN  (IF n = 0 THEN <<>> ELSE <<SubSeq(after, 1, n)>>)
                 \o Mentions(Slice(after, n, Len(after)))

\* processAtMentions: the readable files mentioned are appended to the input
processAtMentions(w, input) ==
    LET names == Mentions(input)
        files == SelectSeq([i \in 1..Len(names) |->
                               [path |-> resolvePath(w.dir, names[i]),
                                rd |-> ReadFile(w.fs, resolvePath(w.dir, names[i]))]],
                           LAMBDA x : x.rd.ok)
    IN  IF Len(files) = 0 THEN <<Val(input)>>
        ELSE <<Val(input)>> \o Concat([i \in 1..Len(files) |->
                                  <<Lit("=== "), Val(files[i].path), Val(files[i].rd.data)>>])

\* copyToClipboard
copyToClipboard(w) ==
    Out(w, <<Lit("Copied to clipboard")>>,
        <<[prog |-> "xclip", arg |-> <<>>, dir |-> <<>>]>>, 0, 0, 0)

\* exportChat: the export, never empty once a line was read, is written
\* under the process's own working directory
ExportName == <<"c", "h", "a", "t">>
exportChat(w, filename) ==
    LET name == IF filename = <<>> THEN ExportName ELSE filename
        path == IF IsAbs(name) THEN Clean(name) ELSE Join(W0, name)
    IN  Out([w EXCEPT !.fs = WriteFile(w.fs, path, <<"#">>).fs],
            <<Lit("Exported: "), Val(name)>>, <<>>, 1, 0, 0)

\* saveSession
saveSession(store, sid, w, hist) ==
    [id \in DOMAIN store \cup {sid} |->
        IF id = sid
        THEN [ID |-> sid, Dir |-> w.dir, Mode |-> w.mode, History |-> hist,
              Memory |-> w.mem]
        ELSE store[id]]

\* the name under which a command of handleCommand is recorded: the tool
\* whose handler it calls, or else the command word with its slash
OpName(cmd) ==
    IF cmd \in {<<"/", "r", "u", "n">>, <<"/", "e", "x", "e", "c">>, <<"/", "$">>} THEN Tool.run
    ELSE IF cmd \in {<<"/", "r", "e", "a", "d">>, <<"/", "c", "a", "t">>} THEN Tool.read
    ELSE IF cmd \in {<<"/", "l", "s">>, <<"/", "d", "i", "r">>} THEN Tool.ls
    ELSE IF cmd \in {<<"/", "f", "i", "n", "d">>, <<"/", "g", "r", "e", "p">>, <<"/", "t", "r", "e", "e">>, <<"/", "g", "i", "t">>, <<"/", "c", "d">>} THEN Tail(cmd)
    ELSE cmd


\* the session files a previous run in this directory can have left: /save
\* writes the mode and a history whose first entry is the system prompt
PriorSession(mode) ==
    [ID |-> "s0", Dir |-> W0, Mode |-> mode,
     History |-> <<ChatMessage("system",
                      getSystemPrompt([mode |-> mode, dir |-> W0, ptype |-> "", mem |-> <<>>]))>>,
     Memory |-> <<>>]

SessionStores == {<<>>} \cup {[id \in {"s0"} |-> PriorSession(m)] : m \in Modes}

\* the process before main runs
Init ==
    /\ currentMode = ModeAuto
    /\ currentDir = W0
    /\ projectType = ""
    /\ fs = InitFs
    /\ undoStack = <<>>
    /\ memory = <<>>
    /\ history = <<>>
    /\ sessions \in SessionStores
    /\ sessionID = NewSessionID
    /\ turn = Idle("boot")
    /\ last = Done("boot", <<>>)
    /\ steps = MaxInputs

Alive == turn.pc = "prompt"

\* main: detectProject, loadMemory, then runChat or, for "resume",
\* resumeSession, which takes the mode, the memory and the history of the
\* session saved for this directory and starts a fresh chat when there is none.
\* A launch without "resume" never reads the session files: those launches
\* are taken with none saved.
Start ==
    /\ turn.pc = "boot"
    /\ \E resume \in BOOLEAN, order \in Orders :
          LET w0 == detectProject(World, order)
              ids == {id \in DOMAIN sessions : sessions[id].Dir = currentDir}
              found == resume /\ ids # {}
              latest == sessions[CHOOSE id \in ids : TRUE]
              w == IF found THEN [w0 EXCEPT !.mode = latest.Mode, !.mem = latest.Memory]
                   ELSE w0
          IN  /\ ids # {} => resume
              /\ SetWorld(w)
              /\ sessionID' = IF found THEN latest.ID ELSE sessionID
              /\ history' = IF found THEN latest.History
                            ELSE <<ChatMessage("system", getSystemPrompt(w))>>
              /\ last' = Done(IF found THEN "resume" ELSE "start", <<>>)
    /\ turn' = Idle("prompt")
    /\ UNCHANGED <<sessions, steps>>

\* main with a message on the command line: runChat sends the message after
\* the system prompt, in a list of its own that history stands for here, and
\* the directives of the response are run as in a chat turn
OneShot ==
    /\ turn.pc = "boot"
    /\ sessions = <<>>
    /\ \E order \in Orders, reply \in Replies :
          LET Sent(w) ==
                 /\ SetWorld(w)
                 /\ history' = <<ChatMessage("system", getSystemPrompt(w)),
                                 ChatMessage("user", processAtMentions(w, L_chat))>>
          IN  /\ Sent(detectProject(World, order))
              /\ turn' = [pc |-> "tools", original |-> reply.text, response |-> reply.text,
                          results |-> <<>>, failed |-> reply.failed, requests |-> 1]
    /\ last' = Done("oneshot", <<>>)
    /\ UNCHANGED <<sessions, sessionID, steps>>

\* the main loop reads a line
Reads == Alive /\ steps > 0 /\ steps' = steps - 1

(***************************************************************************)
(* the cases of the switch in the main loop of runChatWithHistory          *)
(***************************************************************************)
Exit ==
    /\ Reads
    /\ \E input \in UserLines :
          /\ Kind(input) = "exit"
          /\ SetWorld(saveMemory(World))
          /\ last' = Done("exit", <<>>)
    /\ turn' = Idle("dead")
    /\ UNCHANGED <<history, sessions, sessionID>>

CmdMode ==
    /\ Reads
    /\ \E input \in UserLines :
          /\ Kind(input) = "mode"
          /\ LET w == [World EXCEPT !.mode = cycleMode(currentMode)]
             IN  /\ SetWorld(w)
                 /\ history' = [history EXCEPT ![1] = ChatMessage("system", getSystemPrompt(w))]
          /\ last' = Done("mode", <<>>)
    /\ turn' = Idle("done")
    /\ UNCHANGED <<sessions, sessionID>>

CmdUndo ==
    /\ Reads
    /\ \E input \in UserLines :
          /\ Kind(input) = "undo"
          /\ LET out == doUndo(World)
             IN  /\ SetWorld(out.w)
                 /\ last' = OneOp("undo", input, <<>>, World, NoEnv, out)
    /\ turn' = Idle("done")
    /\ UNCHANGED <<history, sessions, sessionID>>

CmdSave ==
    /\ Reads
    /\ \E input \in UserLines :
          /\ Kind(input) = "save"
          /\ sessions' = saveSession(sessions, sessionID, World, history)
          /\ last' = Done("save", <<>>)
    /\ turn' = Idle("done")
    /\ UNCHANGED <<currentMode, currentDir, projectType, fs, undoStack, memory, history,
                   sessionID>>

\* /copy, /cost, /context, /memory, /sessions: they print
CmdShow ==
    /\ Reads
    /\ \E input \in UserLines :
          /\ Kind(input) \in {"copy", "cost", "context", "memory", "sessions"}
          /\ last' = IF Kind(input) = "copy"
                     THEN OneOp("copy", input, <<>>, World, NoEnv, copyToClipboard(World))
                     ELSE Done(Kind(input), <<>>)
    /\ turn' = Idle("done")
    /\ UNCHANGED <<currentMode, currentDir, projectType, fs, undoStack, memory, history,
                   sessions, sessionID>>

CmdExport ==
    /\ Reads
    /\ \E input \in UserLines :
          /\ Kind(input) = "export"
          /\ LET parts == SplitN(input, <<" ">>, 2)
                 f == IF Len(parts) > 1 THEN parts[2] ELSE <<>>
                 out == exportChat(World, f)
             IN  /\ SetWorld(out.w)
                 /\ last' = OneOp("export", parts[1], f, World, NoEnv, out)
    /\ turn' = Idle("done")
    /\ UNCHANGED <<history, sessions, sessionID>>

CmdForget ==
    /\ Reads
    /\ \E input \in UserLines :
          /\ Kind(input) = "forget"
          /\ SetWorld(forgetFact(World, TrimPrefix(input, <<"/", "f", "o", "r", "g", "e", "t", " ">>)))
          /\ last' = Done("forget", <<>>)
    /\ turn' = Idle("done")
    /\ UNCHANGED <<history, sessions, sessionID>>

CmdRemember ==
    /\ Reads
    /\ \E input \in UserLines :
          /\ Kind(input) = "remember"
          /\ LET parts == SplitN(TrimPrefix(input, <<"/", "r", "e", "m", "e", "m", "b", "e", "r", " ">>), <<"=">>, 2)
             IN  SetWorld(IF Len(parts) = 2
                          THEN rememberFact(World, TrimSpace(parts[1]), TrimSpace(parts[2]))
                          ELSE World)
          /\ last' = Done("remember", <<>>)
    /\ turn' = Idle("done")
    /\ UNCHANGED <<history, sessions, sessionID>>

\* /python, /node, /search, /img
CmdCode ==
    /\ Reads
    /\ \E input \in UserLines :
          /\ Kind(input) \in {"python", "node", "search", "img"}
          /\ LET k == Kind(input)
                 arg == CASE k = "python" -> TrimPrefix(input, <<"/", "p", "y", "t", "h", "o", "n", " ">>)
                          [] k = "node" -> TrimPrefix(input, <<"/", "n", "o", "d", "e", " ">>)
                          [] k = "search" -> TrimPrefix(input, <<"/", "s", "e", "a", "r", "c", "h", " ">>)
                          [] k = "img" -> TrimPrefix(input, <<"/", "i", "m", "g", " ">>)
                 name == CASE k = "python" -> Tool.python
                           [] k = "node" -> Tool.node
                           [] k = "search" -> Tool.search
                           [] k = "img" -> Tool.image
                 Call(o) == CASE k = "python" -> runPython(World, arg, o)
                              [] k = "node" -> runNode(World, arg, o)
                              [] k = "search" -> webSearch(World, arg, o)
                              [] k = "img" -> analyzeImage(World, arg, o)
             IN  \E r \in {Ran(k, name, arg, World, Env(<<>>, ok, <<"go", "make">>),
                                Call([ans |-> <<>>, ok |-> ok, order |-> <<"go", "make">>]))
                               : ok \in BOOLEAN} :
                    /\ SetWorld(r.out.w)
                    /\ last' = r.done
                    /\ turn' = After(r.out)
    /\ UNCHANGED <<history, sessions, sessionID>>

\* the lines the user types into /edit
EditScripts == { <<>>, <<L_save>>, << <<"B">>, L_save >>, << <<"B">>, L_cancel >> }

\* the lines the user may type at the prompt of a gated operation: read only
\* in ask mode
Prompted(mode) == IF mode = ModeAsk THEN Answers ELSE {<<>>}

\* every other line that starts with a slash goes to handleCommand
CommandOf(lines) ==
    /\ Reads
    /\ \E input \in lines :
          /\ Kind(input) = "command"
          /\ LET parts == SplitN(input, <<" ">>, 2)
                 cmd == parts[1]
                 arg == IF Len(parts) > 1 THEN TrimSpace(parts[2]) ELSE <<>>
                 typed == IF cmd = <<"/", "e", "d", "i", "t">> THEN EditScripts
                          ELSE {<<a>> : a \in Prompted(currentMode)}
             IN  \E r \in {Ran("command", OpName(cmd), arg, World, Env(stdin, ok, order),
                                handleCommand(World, input, Env(stdin, ok, order)))
                               : stdin \in typed, ok \in BOOLEAN, order \in Orders} :
                    /\ SetWorld(r.out.w)
                    /\ last' = r.done
                    /\ turn' = After(r.out)
    /\ UNCHANGED <<history, sessions, sessionID>>

Command == CommandOf(UserLines)

\* Any other line is sent to the model with the history.  The error of
\* sendStream is dropped and the text it returned is taken as the response.
ChatSendOf(replies) ==
    /\ Reads
    /\ \E input \in UserLines, reply \in replies :
          /\ Kind(input) = "chat"
          /\ history' = Append(history, ChatMessage("user", processAtMentions(World, input)))
          /\ turn' = [pc |-> "tools", original |-> reply.text, response |-> reply.text,
                      results |-> <<>>, failed |-> reply.failed, requests |-> 1]
          /\ last' = Done("chat", <<>>)
    /\ UNCHANGED <<currentMode, currentDir, projectType, fs, undoStack, memory, sessions,
                   sessionID>>

ChatSend == ChatSendOf(Replies)

\* one pass of the loop of parseAndExecuteTools: the first complete span is
\* dispatched, its labeled result appended, and the span cut out
ToolStep ==
    /\ turn.pc = "tools"
    /\ LET sc == Scan(turn.response)
       IN  /\ sc.found
           /\ \E r \in {Ran(last.kind, sc.toolName, sc.toolArg, World, Env(<<ans>>, ok, order),
                              Dispatch(World, sc.toolName, sc.toolArg,
                                       [ans |-> ans, ok |-> ok, order |-> order]))
                             : ans \in Prompted(currentMode), ok \in BOOLEAN, order \in Orders} :
                 /\ SetWorld(r.out.w)
                 /\ last' = [kind |-> r.done.kind, ops |-> last.ops \o r.done.ops]
                 /\ turn' = IF r.out.panic THEN [turn EXCEPT !.pc = "dead"]
                            ELSE [turn EXCEPT
                                    !.response = sc.rest,
                                    !.results = Append(@, Labeled(sc.toolName, r.out.result))]
    /\ UNCHANGED <<history, sessions, sessionID, steps>>

\* the calls of sendStream in a turn whose directives gave these results: the
\* one that sent the user's line and, when there are results, the follow-up
Requests(results) == IF Len(results) > 0 THEN 2 ELSE 1

\* the replies to the request that carries the results: none (the request
\* failed, or the stream was empty), a plain text, a text with a directive
FollowUps ==
    {<<>>, <<"o", "k">>,
     <<"<", "t", "o", "o", "l", ">", "r", "u", "n", ":", "x", "<", "/", "t", "o", "o", "l", ">">>}

\* parseAndExecuteTools finds no further span and returns; the caller drops
\* the text it returns, records the turn and, when there were results, sends
\* them back and records the reply unless it is empty
ChatFinishOf(followUps) ==
    /\ turn.pc = "tools"
    /\ last.kind = "chat"
    /\ ~Scan(turn.response).found
    /\ \E followUp \in (IF Len(turn.results) > 0 THEN followUps ELSE {<<>>}) :
          LET h2 == history \o
                    <<ChatMessage("assistant", <<Val(turn.original)>>),
                      ChatMessage("user", <<Lit("Results:\n")>> \o Concat(turn.results)
                                          \o <<Lit("\n\nJelaskan singkat.")>>)>>
          IN  history' =
                 IF Len(turn.results) > 0
                 THEN IF followUp # <<>>
                      THEN Append(h2, ChatMessage("assistant", <<Val(followUp)>>))
                      ELSE h2
                 ELSE Append(history, ChatMessage("assistant", <<Val(turn.original)>>))
    /\ turn' = [turn EXCEPT !.pc = "done", !.response = Visible(turn.response),
                            !.requests = Requests(turn.results)]
    /\ UNCHANGED <<currentMode, currentDir, projectType, fs, undoStack, memory, sessions,
                   sessionID, last, steps>>

ChatFinish == ChatFinishOf(FollowUps)

\* runChat with a message: the results are printed and main returns
OneShotFinish ==
    /\ turn.pc = "tools"
    /\ last.kind = "oneshot"
    /\ ~Scan(turn.response).found
    /\ turn' = [turn EXCEPT !.pc = "dead", !.response = Visible(turn.response)]
    /\ UNCHANGED <<currentMode, currentDir, projectType, fs, undoStack, memory, history,
                   sessions, sessionID, last, steps>>

\* the pass of the main loop is over and the next line is awaited; of what
\* the pass did, the operations that pushed onto the undo stack stay on record
Continue ==
    /\ turn.pc = "done"
    /\ turn' = Idle("prompt")
    /\ last' = Done("idle", IF last.kind = "undo" THEN <<>>
                            ELSE SelectSeq(last.ops, LAMBDA op : ~op.undoSame))
    /\ UNCHANGED <<currentMode, currentDir, projectType, fs, undoStack, memory, history,
                   sessions, sessionID, steps>>

Next ==
    \/ Start
    \/ OneShot
    \/ Exit
    \/ CmdMode
    \/ CmdUndo
    \/ CmdSave
    \/ CmdShow
    \/ CmdExport
    \/ CmdForget
    \/ CmdRemember
    \/ CmdCode
    \/ Command
    \/ ChatSend
    \/ ToolStep
    \/ ChatFinish
    \/ OneShotFinish
    \/ Continue

Spec == Init /\ [][Next]_vars

(***************************************************************************)
(* parseAndExecuteTools on its own: the response is any text assembled     *)
(* from at most MaxPieces of the fragments below, which hold whole spans,  *)
(* lone markers and halves of a marker                                     *)
(***************************************************************************)
SpanA == OpenTag \o <<"a">> \o CloseTag
SpanB == OpenTag \o <<" ", "b", " ">> \o CloseTag
Fragments ==
    {SpanA, SpanB, OpenTag, CloseTag, <<"<", "t", "o">>, <<"o", "l", ">">>, <<"x">>, <<" ">>}

ParseInputs == {Concat(p) : p \in UNION {[1..n -> Fragments] : n \in 0..MaxPieces}}

\* the process after ChatSend, with the response one of responses
ParseStart(responses) ==
    /\ currentMode = ModeAuto
    /\ currentDir = W0
    /\ projectType = ""
    /\ fs = InitFs
    /\ undoStack = <<>>
    /\ memory = <<>>
    /\ history = <<ChatMessage("system", getSystemPrompt(World)),
                   ChatMessage("user", <<Val(L_chat)>>)>>
    /\ sessions = <<>>
    /\ sessionID = NewSessionID
    /\ \E response \in responses :
          turn = [pc |-> "tools", original |-> response, response |-> response,
                  results |-> <<>>, failed |-> FALSE, requests |-> 1]
    /\ last = Done("chat", <<>>)
    /\ steps = 0

InitParse == ParseStart(ParseInputs)

NextParse ==
    \/ ToolStep
    \/ ChatFinish

SpecParse == InitParse /\ [][NextParse]_vars

\* the same with the process running on: weak fairness of the pass, which can
\* be made exactly while the process is in the loop.  This is WF_vars(NextParse)
\* with its enabling condition written out.
LoopRunsOn == []<>(turn.pc # "tools") \/ []<><<NextParse>>_vars

SpecParseLive == SpecParse /\ LoopRunsOn

(***************************************************************************)
(* parseAndExecuteTools on one directive: the text between the markers is  *)
(* any text of at most MaxBody letters, colons and spaces                  *)
(***************************************************************************)
BodyChars == {"a", ":", " "}
Bodies == UNION {[1..n -> BodyChars] : n \in 0..MaxBody}

InitBody == ParseStart({OpenTag \o body \o CloseTag : body \in Bodies})

SpecBody == InitBody /\ [][NextParse]_vars

(***************************************************************************)
(* mutation and undo: the process is at the prompt in auto or ask mode,    *)
(* the file f holds any of UndoContents, the user has UndoInputs lines to  *)
(* type, and the model replies with write, replace and append directives   *)
(***************************************************************************)
UndoContents == {<<>>, <<"A">>, <<" ", "A", "\n">>}

Mutates(response) ==
    \/ Contains(response, OpenTag \o Tool.write \o Colon)
    \/ Contains(response, OpenTag \o Tool.replace \o Colon)
    \/ Contains(response, OpenTag \o Tool.append \o Colon)

MutatingReplies == {Reply(r, FALSE) : r \in {x \in Responses : Mutates(x)}}

InitUndo ==
    /\ currentMode \in {ModeAuto, ModeAsk}
    /\ currentDir = W0
    /\ projectType = ""
    /\ \E c \in UndoContents : fs = [InitFs EXCEPT ![Join(W0, <<"f">>)] = FileNode(c)]
    /\ undoStack = <<>>
    /\ memory = <<>>
    /\ history = <<ChatMessage("system", getSystemPrompt(World))>>
    /\ sessions = <<>>
    /\ sessionID = NewSessionID
    /\ turn = Idle("prompt")
    /\ last = Done("idle", <<>>)
    /\ steps = UndoInputs

ChatSendMutating == ChatSendOf(MutatingReplies)

ChatFinishPlain == ChatFinishOf({<<"o", "k">>})

NextUndo ==
    \/ ChatSendMutating
    \/ ToolStep
    \/ ChatFinishPlain
    \/ Continue
    \/ CmdUndo
    \/ Command

SpecUndo == InitUndo /\ [][NextUndo]_vars

(***************************************************************************)
(* the ledger at its capacity: the process is at the prompt in auto mode,  *)
(* the file f holds "A", the user has LedgerInputs lines to type, and in    *)
(* up to MaxBatches turns the model replies with UndoCap + 1 append        *)
(* directives for f                                                        *)
(***************************************************************************)
\* enough lines for one turn and UndoCap + 1 undos
LedgerInputs == 22
MaxBatches == 2

RECURSIVE Repeat(_, _)
Repeat(s, n) == IF n = 0 THEN <<>> ELSE s \o Repeat(s, n - 1)

AppendB == OpenTag \o Tool.append \o Colon \o <<"f">> \o Bars \o <<"B">> \o CloseTag

FullBatch == Repeat(AppendB, UndoCap + 1)

FileF == Join(W0, <<"f">>)

InitLedger ==
    /\ currentMode = ModeAuto
    /\ currentDir = W0
    /\ projectType = ""
    /\ fs = [InitFs EXCEPT ![FileF] = FileNode(<<"A">>)]
    /\ undoStack = <<>>
    /\ memory = <<>>
    /\ history = <<ChatMessage("system", getSystemPrompt(World))>>
    /\ sessions = <<>>
    /\ sessionID = NewSessionID
    /\ turn = Idle("prompt")
    /\ last = Done("idle", <<>>)
    /\ steps = LedgerInputs

\* a turn with results adds four entries to the history, which starts with
\* the system entry
ChatSendBatch ==
    /\ Len(history) < 1 + 4 * MaxBatches
    /\ ChatSendOf({Reply(FullBatch, FALSE)})

NextLedger ==
    \/ ChatSendBatch
    \/ ToolStep
    \/ ChatFinishPlain
    \/ Continue
    \/ CmdUndo

SpecLedger == InitLedger /\ [][NextLedger]_vars

(***************************************************************************)
(* replace: the process is at the prompt in any mode, the file f holds any *)
(* of ReplaceContents, the user types one line and the model replies with  *)
(* one replace directive for f                                             *)
(***************************************************************************)
ReplaceContents == {<<>>, <<"A">>, <<"A", "\n", "A">>, <<"Z", "A", "A">>}

ReplaceArgs == {<<"f">> \o Bars \o old \o Bars \o <<"B">> : old \in {<<"A">>, <<"Z">>, <<>>}}

ReplaceReplies ==
    {Reply(OpenTag \o Tool.replace \o Colon \o arg \o CloseTag, FALSE) : arg \in ReplaceArgs}

InitReplace ==
    /\ currentMode \in Modes
    /\ currentDir = W0
    /\ projectType = ""
    /\ \E c \in ReplaceContents : fs = [InitFs EXCEPT ![FileF] = FileNode(c)]
    /\ undoStack = <<>>
    /\ memory = <<>>
    /\ history = <<ChatMessage("system", getSystemPrompt(World))>>
    /\ sessions = <<>>
    /\ sessionID = NewSessionID
    /\ turn = Idle("prompt")
    /\ last = Done("idle", <<>>)
    /\ steps = MaxInputs

ChatSendReplace == ChatSendOf(ReplaceReplies)

NextReplace ==
    \/ ChatSendReplace
    \/ ToolStep
    \/ ChatFinishPlain
    \/ Continue

SpecReplace == InitReplace /\ [][NextReplace]_vars

(***************************************************************************)
(* write and append: the process is at the prompt in any mode, the user    *)
(* types one line and the model replies with one write or append directive *)
(* whose path names a new file, an existing file, a file under directories *)
(* that do not exist, a directory, or a path under a regular file          *)
(***************************************************************************)
WriteTargets ==
    {<<"g">>, <<"f">>, <<"n", "/", "m", "/", "g">>, <<"d">>, <<"f", "/", "x">>}

WriteContents == {<<>>, <<"B">>}

WriteReplies ==
    {Reply(OpenTag \o name \o Colon \o path \o Bars \o content \o CloseTag, FALSE)
        : name \in {Tool.write, Tool.append}, path \in WriteTargets, content \in WriteContents}

InitWrite ==
    /\ currentMode \in Modes
    /\ currentDir = W0
    /\ projectType = ""
    /\ fs = InitFs
    /\ undoStack = <<>>
    /\ memory = <<>>
    /\ history = <<ChatMessage("system", getSystemPrompt(World))>>
    /\ sessions = <<>>
    /\ sessionID = NewSessionID
    /\ turn = Idle("prompt")
    /\ last = Done("idle", <<>>)
    /\ steps = MaxInputs

ChatSendWrite == ChatSendOf(WriteReplies)

NextWrite ==
    \/ ChatSendWrite
    \/ ToolStep
    \/ ChatFinishPlain
    \/ Continue

SpecWrite == InitWrite /\ [][NextWrite]_vars

(***************************************************************************)
(* the thinking indicator: runChatWithHistory has appended the user's line *)
(* and calls showThinking, sendStream and stopThinking.  Here turn holds   *)
(* where the main goroutine is (pc), the flag isThinking, where the        *)
(* goroutine started by showThinking is (spinner), the chunks the server   *)
(* has still to stream, the frames painted so far, and what was written to *)
(* the terminal (tty)                                                      *)
(***************************************************************************)
MaxChunks == 2
MaxFrames == 2

InitThinking ==
    /\ currentMode \in Modes
    /\ currentDir = W0
    /\ projectType = ""
    /\ fs = InitFs
    /\ undoStack = <<>>
    /\ memory = <<>>
    /\ history = <<ChatMessage("system", getSystemPrompt(World)), ChatMessage("user", L_chat)>>
    /\ sessions = <<>>
    /\ sessionID = NewSessionID
    /\ turn = [pc |-> "show", isThinking |-> FALSE, spinner |-> "none", chunks |-> 0,
               frames |-> 0, tty |-> <<>>]
    /\ last = Done("chat", <<>>)
    /\ steps = 0

OnlyTurn ==
    UNCHANGED <<currentMode, currentDir, projectType, fs, undoStack, memory, history,
                sessions, sessionID, last, steps>>

\* showThinking: sets the flag and starts the goroutine
showThinking ==
    /\ turn.pc = "show"
    /\ turn' = [turn EXCEPT !.pc = "send", !.isThinking = TRUE, !.spinner = "loop"]
    /\ OnlyTurn

\* one pass of the loop of the goroutine: it paints a frame while it reads
\* the flag as set, and clears the line and ends otherwise.  The flag is read
\* without synchronisation, so after stopThinking has reset it the read may
\* still give the old value.
SpinnerPass ==
    /\ turn.spinner = "loop"
    /\ \E seen \in (IF turn.isThinking THEN {TRUE} ELSE BOOLEAN) :
          IF seen
          THEN /\ turn.frames < MaxFrames
               /\ turn' = [turn EXCEPT !.frames = @ + 1, !.tty = Append(@, "frame")]
          ELSE turn' = [turn EXCEPT !.spinner = "exited", !.tty = Append(@, "clear")]
    /\ OnlyTurn

\* sendStream: the request fails or the status is not 200; nothing is printed
SendFails ==
    /\ turn.pc = "send"
    /\ turn' = [turn EXCEPT !.pc = "stop"]
    /\ OnlyTurn

\* sendStream: the response arrives and its body is read chunk by chunk
SendStreams ==
    /\ turn.pc = "send"
    /\ \E n \in 0..MaxChunks :
          turn' = [turn EXCEPT !.pc = "stream", !.chunks = n, !.tty = Append(@, "colorGreen")]
    /\ OnlyTurn

\* sendStream: a chunk is printed as it arrives
StreamChunk ==
    /\ turn.pc = "stream"
    /\ turn.chunks > 0
    /\ turn' = [turn EXCEPT !.chunks = @ - 1, !.tty = Append(@, "chunk")]
    /\ OnlyTurn

\* sendStream: the body ends or a read fails, and sendStream returns
StreamEnd ==
    /\ turn.pc = "stream"
    /\ turn' = [turn EXCEPT !.pc = "stop", !.chunks = 0, !.tty = Append(@, "colorReset")]
    /\ OnlyTurn

\* stopThinking: resets the flag and sleeps
stopThinking ==
    /\ turn.pc = "stop"
    /\ turn' = [turn EXCEPT !.pc = "sleep", !.isThinking = FALSE]
    /\ OnlyTurn

\* stopThinking: after the sleep it clears the line and returns
StopThinkingClears ==
    /\ turn.pc = "sleep"
    /\ turn' = [turn EXCEPT !.pc = "tools", !.tty = Append(@, "clear")]
    /\ OnlyTurn

\* the results of parseAndExecuteTools are printed
PrintResults ==
    /\ turn.pc = "tools"
    /\ turn' = [turn EXCEPT !.pc = "done", !.tty = Append(@, "result")]
    /\ OnlyTurn

NextThinking ==
    \/ showThinking
    \/ SpinnerPass
    \/ SendFails
    \/ SendStreams
    \/ StreamChunk
    \/ StreamEnd
    \/ stopThinking
    \/ StopThinkingClears
    \/ PrintResults

SpecThinking == InitThinking /\ [][NextThinking]_vars

(***************************************************************************)
(* changes of directory: the process is at the prompt in auto mode,        *)
(* /w/d/g holds "D" and /w/g holds "A" or does not exist, the user         *)
(* has CdInputs lines to type, among them /cd and /undo, and the model     *)
(* replies with cd directives that succeed or fail, alone or between other *)
(* directives                                                              *)
(***************************************************************************)
CdInputs == 3

Directive(name, arg) == OpenTag \o name \o Colon \o arg \o CloseTag

WriteG == Directive(Tool.write, <<"g">> \o Bars \o <<"B">>)

CdResponses ==
    {WriteG,
     Directive(Tool.cd, <<"d">>),
     Directive(Tool.cd, <<"f">>),
     Directive(Tool.cd, <<"q">>),
     Directive(Tool.cd, <<>>),
     Directive(Tool.read, <<"g">>) \o Directive(Tool.run, <<"x">>) \o Directive(Tool.cd, <<"d">>)
        \o Directive(Tool.read, <<"g">>) \o Directive(Tool.run, <<"x">>) \o WriteG,
     Directive(Tool.cd, <<"f">>) \o WriteG}

CdLines ==
    {<<"/", "c", "d", " ", "d">>, <<"/", "c", "d", " ", "q">>, <<"/", "c", "d", " ", ".", ".">>,
     <<"/", "p", "w", "d">>}

InitCd ==
    /\ currentMode = ModeAuto
    /\ currentDir = W0
    /\ projectType = ""
    /\ \E gs \in {{}, {Join(W0, <<"g">>)}} :
          fs = [p \in DOMAIN InitFs \cup {Join(Join(W0, <<"d">>), <<"g">>)} \cup gs |->
                   IF p \in DOMAIN InitFs THEN InitFs[p]
                   ELSE IF p \in gs THEN FileNode(<<"A">>)
                   ELSE FileNode(<<"D">>)]
    /\ undoStack = <<>>
    /\ memory = <<>>
    /\ history = <<ChatMessage("system", getSystemPrompt(World))>>
    /\ sessions = <<>>
    /\ sessionID = NewSessionID
    /\ turn = Idle("prompt")
    /\ last = Done("idle", <<>>)
    /\ steps = CdInputs

ChatSendCd == ChatSendOf({Reply(r, FALSE) : r \in CdResponses})

CommandCd == CommandOf(CdLines)

NextCd ==
    \/ ChatSendCd
    \/ ToolStep
    \/ ChatFinishPlain
    \/ Continue
    \/ CmdUndo
    \/ CommandCd

SpecCd == InitCd /\ [][NextCd]_vars

(***************************************************************************)
(* sessions across processes: a process is at the prompt; the user chats,  *)
(* cycles the mode and types /save; then the process ends and a new one is *)
(* started with "resume" in /w or in /w/d.  Here sessions holds the        *)
(* session files as json.MarshalIndent wrote them, and turn holds the      *)
(* globals totalTokens and totalCost, the wall clock and the number of     *)
(* processes started so far.  The file /w/b holds a byte that is no valid  *)
(* UTF-8.                                                                  *)
(***************************************************************************)
SessionInputs == 3
MaxProcesses == 3

InvalidByte == "xFF"
ReplacementRune == "uFFFD"

\* encoding/json on a string: quotes, backslashes and newlines are escaped
\* and a byte that is no valid UTF-8 is written as the escape of U+FFFD
MarshalString(s) ==
    LET Escape(c) ==
            IF c = "\"" THEN <<"\\", "\"">>
            ELSE IF c = "\\" THEN <<"\\", "\\">>
            ELSE IF c = "\n" THEN <<"\\", "n">>
            ELSE IF c = InvalidByte THEN <<"\\", "u", "f", "f", "f", "d">>
            ELSE <<c>>
    IN  Concat([i \in 1..Len(s) |-> Escape(s[i])])

\* encoding/json reading a string back
RECURSIVE UnmarshalString(_)
UnmarshalString(t) ==
    IF t = <<>> THEN <<>>
    ELSE IF t[1] # "\\" THEN <<t[1]>> \o UnmarshalString(Tail(t))
    ELSE IF t[2] = "n" THEN <<"\n">> \o UnmarshalString(SubSeq(t, 3, Len(t)))
    ELSE IF t[2] = "u" THEN <<ReplacementRune>> \o UnmarshalString(SubSeq(t, 7, Len(t)))
    ELSE <<t[2]>> \o UnmarshalString(SubSeq(t, 3, Len(t)))

\* the strings of a message are the values put into its content; the text
\* around them is the program's own
OnStrings(m, F(_)) ==
    IF m.Role = "system" THEN m
    ELSE [m EXCEPT !.Content =
             [i \in DOMAIN @ |-> IF "val" \in DOMAIN @[i] THEN Val(F(@[i].val)) ELSE @[i]]]

\* saveSession: the Session value as json.MarshalIndent writes it
MarshalSession(session) ==
    [session EXCEPT
        !.History = [i \in DOMAIN @ |-> OnStrings(@[i], MarshalString)],
        !.Memory = [k \in DOMAIN @ |-> MarshalString(@[k])]]

\* a loadSession that finds no mode in the file
loadSessionModeLost(file) ==
    [file EXCEPT
        !.Mode = "",
        !.History = [i \in DOMAIN @ |-> OnStrings(@[i], UnmarshalString)],
        !.Memory = [k \in DOMAIN @ |-> UnmarshalString(@[k])]]

\* loadSession: the Session value json.Unmarshal makes of a file
loadSession(file) ==
    [file EXCEPT
        !.History = [i \in DOMAIN @ |-> OnStrings(@[i], UnmarshalString)],
        !.Memory = [k \in DOMAIN @ |-> UnmarshalString(@[k])]]

\* costPer1KTokens: the cost is the token count times a fixed rate, counted here
\* in units that keep it an integer
CostPer1K == 2

SessionLines == {L_chat, <<"@", "f">>, <<"@", "b">>}

SessionFs ==
    [p \in DOMAIN InitFs \cup {Join(W0, <<"b">>)} |->
        IF p \in DOMAIN InitFs THEN InitFs[p] ELSE FileNode(<<InvalidByte>>)]

Globals(tokens, clock, processes) ==
    [pc |-> "prompt", totalTokens |-> tokens, totalCost |-> tokens * CostPer1K,
     clock |-> clock, processes |-> processes]

InitSession ==
    /\ currentMode = ModeAuto
    /\ currentDir = W0
    /\ projectType = ""
    /\ fs = SessionFs
    /\ undoStack = <<>>
    /\ memory \in {<<>>, [k \in {<<"k">>} |-> <<"v", "\"">>]}
    /\ history = <<ChatMessage("system", getSystemPrompt(World))>>
    /\ sessions = <<>>
    /\ sessionID = 1
    /\ turn = Globals(0, 1, 1)
    /\ last = Done("start", <<>>)
    /\ steps = SessionInputs

SessionFrame == UNCHANGED <<currentDir, projectType, fs, undoStack, last>>

\* a chat turn: the line with its mentioned files, the answer, and the usage
\* the server reported
SessionTurn ==
    /\ Reads
    /\ \E input \in SessionLines, usage \in {3, 5} :
          /\ history' = history \o <<ChatMessage("user", processAtMentions(World, input)),
                                     ChatMessage("assistant", <<Val(<<"o", "k">>)>>)>>
          /\ turn' = [turn EXCEPT !.totalTokens = usage, !.totalCost = usage * CostPer1K]
    /\ SessionFrame
    /\ UNCHANGED <<currentMode, memory, sessions, sessionID>>

\* /mode
SessionMode ==
    /\ Reads
    /\ currentMode' = cycleMode(currentMode)
    /\ history' = [history EXCEPT
                      ![1] = ChatMessage("system",
                                         getSystemPrompt([World EXCEPT !.mode = currentMode']))]
    /\ SessionFrame
    /\ UNCHANGED <<memory, sessions, sessionID, turn>>

\* /save: saveSession writes the file named after the session id
SessionSave ==
    /\ Reads
    /\ LET session == [ID |-> sessionID, Dir |-> currentDir, Mode |-> currentMode,
                       History |-> history, Tokens |-> turn.totalTokens,
                       Cost |-> turn.totalCost, Memory |-> memory, Updated |-> turn.clock]
       IN  sessions' = [id \in DOMAIN sessions \cup {sessionID} |->
                           IF id = sessionID THEN MarshalSession(session) ELSE sessions[id]]
    /\ turn' = [turn EXCEPT !.clock = @ + 1]
    /\ SessionFrame
    /\ UNCHANGED <<currentMode, memory, history, sessionID>>

\* main in directory dir: a new session id, the project of the directory, the
\* memory file as saveMemory wrote it, and the first mode
main(dir, order) ==
    detectProject([World EXCEPT !.mode = ModeAuto, !.dir = dir,
                      !.mem = [k \in DOMAIN memory |->
                                  UnmarshalString(MarshalString(memory[k]))]], order)

\* the process ends and "mytool" is started in dir: main, then runChat with
\* no history
SessionStart ==
    /\ turn.pc = "prompt"
    /\ turn.processes < MaxProcesses
    /\ \E dir \in {W0, Join(W0, <<"d">>)}, order \in Orders :
          LET fresh == main(dir, order)
          IN  /\ currentDir' = dir
              /\ projectType' = fresh.ptype
              /\ memory' = fresh.mem
              /\ history' = <<ChatMessage("system", getSystemPrompt(fresh))>>
    /\ sessionID' = turn.processes + 1
    /\ currentMode' = ModeAuto
    /\ turn' = Globals(0, turn.clock + 1, turn.processes + 1)
    /\ last' = Done("start", <<>>)
    /\ UNCHANGED <<fs, undoStack, sessions, steps>>

\* the process ends and "mytool resume" is started in dir: main, then
\* resumeSession, which takes the session of this directory updated last
resumeSession ==
    /\ turn.pc = "prompt"
    /\ turn.processes < MaxProcesses
    /\ \E dir \in {W0, Join(W0, <<"d">>)}, order \in Orders :
          LET ids == {id \in DOMAIN sessions : loadSession(sessions[id]).Dir = dir}
              latest == loadSession(sessions[CHOOSE id \in ids :
                            \A other \in ids : sessions[other].Updated <= sessions[id].Updated])
              fresh == main(dir, order)
          IN  /\ currentDir' = dir
              /\ projectType' = fresh.ptype
              /\ IF ids = {}
                 THEN /\ sessionID' = turn.processes + 1
                      /\ currentMode' = ModeAuto
                      /\ memory' = fresh.mem
                      /\ history' = <<ChatMessage("system", getSystemPrompt(fresh))>>
                      /\ turn' = Globals(0, turn.clock + 1, turn.processes + 1)
                 ELSE /\ sessionID' = latest.ID
                      /\ currentMode' = latest.Mode
                      /\ memory' = latest.Memory
                      /\ history' = latest.History
                      /\ turn' = [Globals(latest.Tokens, turn.clock + 1, turn.processes + 1)
                                    EXCEPT !.totalCost = latest.Cost]
    /\ last' = Done("resume", <<>>)
    /\ UNCHANGED <<fs, undoStack, sessions, steps>>

NextSession ==
    \/ SessionTurn
    \/ SessionMode
    \/ SessionSave
    \/ SessionStart
    \/ resumeSession

SpecSession == InitSession /\ [][NextSession]_vars

(***************************************************************************)
(* resolvePath on its own: every path of up to MaxPath characters over     *)
(* PathChars is resolved in one of ResolveDirs, and the result is resolved *)
(* once more in any of them.  Here turn holds the path, the directory it   *)
(* was resolved in and the two results.                                    *)
(***************************************************************************)
MaxPath == 4

PathChars == {"/", ".", "a", "~"}

RawPaths == UNION {[1..n -> PathChars] : n \in 0..MaxPath}

\* os.Getwd() and the directories cmdCd can have moved to
ResolveDirs == {Root, W0, Join(W0, <<"d">>)}

InitResolve ==
    /\ currentMode = ModeAuto
    /\ currentDir \in ResolveDirs
    /\ projectType = ""
    /\ fs = InitFs
    /\ undoStack = <<>>
    /\ memory = <<>>
    /\ history = <<ChatMessage("system", getSystemPrompt(World))>>
    /\ sessions = <<>>
    /\ sessionID = NewSessionID
    /\ \E path \in RawPaths :
          turn = [pc |-> "path", path |-> path, dir |-> currentDir, out |-> <<>>, again |-> <<>>]
    /\ last = Done("idle", <<>>)
    /\ steps = 0

\* a handler resolves the path it was given
Resolve ==
    /\ turn.pc = "path"
    /\ turn' = [turn EXCEPT !.pc = "resolved", !.out = resolvePath(currentDir, turn.path)]
    /\ OnlyTurn

\* the resolved path is given to resolvePath again, in any directory
ResolveAgain ==
    /\ turn.pc = "resolved"
    /\ \E dir \in ResolveDirs :
          /\ currentDir' = dir
          /\ turn' = [turn EXCEPT !.pc = "again", !.again = resolvePath(dir, turn.out)]
    /\ UNCHANGED <<currentMode, projectType, fs, undoStack, memory, history, sessions,
                   sessionID, last, steps>>

NextResolve ==
    \/ Resolve
    \/ ResolveAgain

SpecResolve == InitResolve /\ [][NextResolve]_vars

(***************************************************************************)
(* detectProject run again and again: the process starts in /w or /w/d,    *)
(* /w holds any of go.mod, Makefile and .git, /w/d holds go.mod and        *)
(* Makefile, and the user has DetectInputs lines to type, each a /cd.      *)
(***************************************************************************)
DetectInputs == 3

DetectLines ==
    {<<"/", "c", "d", " ", ".">>, <<"/", "c", "d", " ", "d">>, <<"/", "c", "d", " ", ".", ".">>}

InitDetect ==
    /\ currentMode = ModeAuto
    /\ currentDir \in {W0, Join(W0, <<"d">>)}
    /\ projectType = ""
    /\ \E names \in SUBSET {GoMod, Makefile, DotGit} :
          fs = [p \in DOMAIN InitFs \cup {Join(W0, name) : name \in names} |->
                   IF p \in DOMAIN InitFs THEN InitFs[p]
                   ELSE IF Base(p) = DotGit THEN DirNode
                   ELSE FileNode(<<>>)]
    /\ undoStack = <<>>
    /\ memory = <<>>
    /\ history = <<>>
    /\ sessions = <<>>
    /\ sessionID = NewSessionID
    /\ turn = Idle("boot")
    /\ last = Done("boot", <<>>)
    /\ steps = DetectInputs

CommandDetect == CommandOf(DetectLines)

NextDetect ==
    \/ Start
    \/ CommandDetect
    \/ Continue

SpecDetect == InitDetect /\ [][NextDetect]_vars

(***************************************************************************)
(* The permission modes                                                    *)
(***************************************************************************)
\* the operations run by the input of this pass of the main loop
Ops == {last.ops[i] : i \in 1..Len(last.ops)}

\* the argument has the parts the operation splits it into
WellFormed(op) ==
    CASE op.name = Tool.run -> op.arg # <<>>
      [] op.name = Tool.write -> Len(SplitN(op.arg, Bars, 2)) = 2
      [] op.name = Tool.append -> Len(SplitN(op.arg, Bars, 2)) = 2
      [] op.name = Tool.replace -> Len(SplitN(op.arg, Bars, 3)) = 3
      [] OTHER -> TRUE

\* the operation did nothing to the files, the processes or the undo ledger
NoEffect(op) == op.fsSame /\ op.wr = 0 /\ op.spawn = <<>> /\ op.undoSame

\* the operation asked for confirmation and the answer, trimmed and in lower
\* case, was y
Confirmed(op) == op.ask > 0 /\ ToLower(TrimSpace(op.ans)) = <<"y">>

\* C1: in manual mode every run, write, replace and append with a well-formed
\* argument returns a result containing "[blocked]" and creates or modifies no
\* file, spawns no process and leaves the undo ledger as it was
C1_BlockedChangesNothing ==
    \A op \in Ops :
        (op.mode = ModeManual /\ op.name \in {Tool.run, Tool.write, Tool.replace, Tool.append}
            /\ WellFormed(op))
        => (HasPiece(op.result, "[blocked]") /\ NoEffect(op))

\* a turn in manual mode ran a well-formed run and a well-formed write, both blocked
C1_Witness ==
    /\ \E op \in Ops : op.mode = ModeManual /\ op.name = Tool.run /\ WellFormed(op)
                       /\ HasPiece(op.result, "[blocked]")
    /\ \E op \in Ops : op.mode = ModeManual /\ op.name = Tool.write /\ WellFormed(op)
                       /\ HasPiece(op.result, "[blocked]")

\* C2: git is gated like run: in manual mode it spawns no process and returns
\* a blocked result, in ask mode it spawns no process unless confirmed
C2_GitGated ==
    \A op \in Ops :
        op.name = Tool.git =>
            /\ op.mode = ModeManual => (op.spawn = <<>> /\ HasPiece(op.result, "[blocked]"))
            /\ (op.mode = ModeAsk /\ ~Confirmed(op)) => op.spawn = <<>>

\* C3: python and node are gated: in manual mode no temporary file is written
\* and no interpreter is spawned, in ask mode nothing runs unless confirmed
C3_CodeGated ==
    \A op \in Ops :
        (op.name \in {Tool.python, Tool.node} /\ (op.mode = ModeManual \/ (op.mode = ModeAsk /\ ~Confirmed(op))))
        => (op.wr = 0 /\ op.spawn = <<>>)

\* C4: in ask mode a run, write or replace whose prompt is answered with
\* anything other than y (trimmed, in either case) returns "Cancelled", spawns
\* no process, leaves the files and the undo ledger as they were, and the
\* mode is still ask afterwards
C4_DeniedIsCancelled ==
    \A op \in Ops :
        (op.mode = ModeAsk /\ op.name \in {Tool.run, Tool.write, Tool.replace} /\ op.ask > 0
            /\ ToLower(TrimSpace(op.ans)) # <<"y">>)
        => (op.result = Text("Cancelled") /\ NoEffect(op) /\ op.modeSame
            /\ currentMode = ModeAsk)

\* a write in ask mode was answered "yes" and cancelled, the file not created
C4_Witness ==
    \E op \in Ops : /\ op.mode = ModeAsk /\ op.name = Tool.write /\ op.ask > 0
                    /\ op.ans = A_yes /\ op.result = Text("Cancelled")
                    /\ currentMode = ModeAsk

\* C5: in ask mode an append modifies or creates no file unless a
\* confirmation was asked for and answered with yes
C5_AppendConfirmed ==
    \A op \in Ops :
        (op.mode = ModeAsk /\ op.name = Tool.append /\ ~Confirmed(op))
        => (op.fsSame /\ op.wr = 0)

\* C6: read, ls, tree, find, grep, fetch and cd are never blocked, never
\* cancelled and never ask for confirmation, in any mode
C6_ReadOnlyProceeds ==
    \A op \in Ops :
        op.name \in {Tool.read, Tool.ls, Tool.tree, Tool.find, Tool.grep, Tool.fetch, Tool.cd}
        => (~HasPiece(op.result, "[blocked]") /\ ~HasPiece(op.result, "Cancelled")
            /\ op.ask = 0)

\* a cd in manual mode changed the directory
C6_Witness ==
    \E op \in Ops : op.mode = ModeManual /\ op.name = Tool.cd /\ ~op.dirSame
                    /\ op.result # <<>>

C8_ModeOnlyByCommand ==
    [][(turn.pc # "boot" /\ currentMode' # currentMode) => last'.kind = "mode"]_vars

\* a turn in ask mode ran a confirmed write and the mode is still ask
C8_Witness ==
    /\ currentMode = ModeAsk
    /\ last.kind = "chat"
    /\ turn.pc = "done"
    /\ \E op \in Ops : op.name = Tool.write /\ Confirmed(op) /\ ~op.fsSame /\ ~op.undoSame

(***************************************************************************)
(* The parser                                                              *)
(***************************************************************************)
\* the number of places where tag occurs in s
Count(s, tag) ==
    Cardinality({i \in 0..(Len(s) - Len(tag)) : SubSeq(s, i + 1, i + Len(tag)) = tag})

\* The complete spans of an input, read once from left to right: an opening
\* marker, the nearest closing marker after it, and the reading goes on after
\* that closing marker.  bodies are the texts between the markers, text is
\* the input without the spans.
RECURSIVE Spans(_)
Spans(s) ==
    LET opens == {i \in 1..(Len(s) - 5) : SubSeq(s, i, i + 5) = OpenTag}
        start == Min(opens)
        closes == {j \in (start + 6)..(Len(s) - 6) : SubSeq(s, j, j + 6) = CloseTag}
        end == Min(closes)
    IN  IF opens = {} \/ closes = {} THEN [bodies |-> <<>>, text |-> s]
        ELSE LET r == Spans(SubSeq(s, end + 7, Len(s)))
             IN  [bodies |-> <<SubSeq(s, start + 6, end - 1)>> \o r.bodies,
                  text |-> SubSeq(s, 1, start - 1) \o r.text]

\* the name a span's body gives: the text before the first colon, trimmed
NameOf(body) ==
    LET colons == {i \in 1..Len(body) : body[i] = ":"}
    IN  TrimSpace(IF colons = {} THEN body ELSE SubSeq(body, 1, Min(colons) - 1))

\* t is s without its leading and trailing whitespace
IsTrimOf(t, s) ==
    \E a \in 1..(Len(s) + 1) :
       /\ a + Len(t) - 1 <= Len(s)
       /\ t = SubSeq(s, a, a + Len(t) - 1)
       /\ \A i \in 1..Len(s) : (i < a \/ i >= a + Len(t)) => IsSpace(s[i])
       /\ t # <<>> => (~IsSpace(t[1]) /\ ~IsSpace(t[Len(t)]))

\* every marker of the input belongs to one of its spans, and what is left
\* when the spans are taken out forms no marker
MarkersPaired(s) ==
    LET sp == Spans(s)
    IN  /\ Count(s, OpenTag) = Len(sp.bodies)
        /\ Count(s, CloseTag) = Len(sp.bodies)
        /\ Count(sp.text, OpenTag) = 0
        /\ Count(sp.text, CloseTag) = 0

\* the results are one per span, in the order of the spans, each labeled
\* with the name of its span
ResultsFollow(results, bodies) ==
    /\ Len(results) = Len(bodies)
    /\ \A i \in 1..Len(bodies) :
          /\ i <= Len(results)
          /\ Len(results[i]) >= 2
          /\ results[i][2] = Val(NameOf(bodies[i]))

\* C9 as stated: an input with N complete spans gives N results in the order
\* of the spans, and a visible text without the spans and without any marker
C9_AsStated ==
    turn.pc = "done" =>
        LET sp == Spans(turn.original)
        IN  /\ ResultsFollow(turn.results, sp.bodies)
            /\ Count(turn.response, OpenTag) = 0
            /\ Count(turn.response, CloseTag) = 0

\* C9: when every marker of the input belongs to one of its N complete spans
\* and the text around the spans forms no marker, there are exactly N
\* results in the order of the spans, and the visible text is the input
\* without the spans, trimmed, with no marker in it
C9_PairedSpans ==
    (turn.pc = "done" /\ MarkersPaired(turn.original)) =>
        LET sp == Spans(turn.original)
        IN  /\ ResultsFollow(turn.results, sp.bodies)
            /\ IsTrimOf(turn.response, sp.text)
            /\ Count(turn.response, OpenTag) = 0
            /\ Count(turn.response, CloseTag) = 0

\* two spans with text between them were parsed: a then b
C9_Witness ==
    /\ turn.pc = "done"
    /\ MarkersPaired(turn.original)
    /\ Len(turn.results) = 2
    /\ turn.results[1][2] = Val(<<"a">>)
    /\ turn.results[2][2] = Val(<<"b">>)
    /\ turn.response = <<"x">>

\* C10 as stated: an input without opening marker is returned unchanged, with
\* no result
C10_AsStated ==
    (turn.pc = "done" /\ Count(turn.original, OpenTag) = 0) =>
        (turn.response = turn.original /\ turn.results = <<>>)

\* C10: for an input without opening marker the visible text is the input
\* without its leading and trailing whitespace, and there is no result and
\* nothing was run
C10_NoMarkerTrimmed ==
    (turn.pc = "done" /\ Count(turn.original, OpenTag) = 0) =>
        (IsTrimOf(turn.response, turn.original) /\ turn.results = <<>> /\ last.ops = <<>>)

\* an input without opening marker but with whitespace at an end was parsed
C10_Witness ==
    /\ turn.pc = "done"
    /\ Count(turn.original, OpenTag) = 0
    /\ Count(turn.original, CloseTag) = 1
    /\ turn.response # turn.original
    /\ turn.response # <<>>

(***************************************************************************)
(* unterminated markers                                                    *)
(***************************************************************************)
OpensAt(s) == {i \in 1..(Len(s) - 5) : SubSeq(s, i, i + 5) = OpenTag}
ClosesAt(s) == {j \in 1..(Len(s) - 6) : SubSeq(s, j, j + 6) = CloseTag}

\* the opening markers of s with no closing marker after them
Unterminated(s) == {i \in OpensAt(s) : \A j \in ClosesAt(s) : j < i}

\* t ends with u
EndsWith(t, u) == Len(u) <= Len(t) /\ SubSeq(t, Len(t) - Len(u) + 1, Len(t)) = u

\* t ends with u less u's trailing whitespace; u starts with a marker
EndsWithTrimmed(t, u) ==
    \E n \in 0..Len(u) :
       /\ EndsWith(t, SubSeq(u, 1, n))
       /\ \A i \in (n + 1)..Len(u) : IsSpace(u[i])
       /\ n > 0 => ~IsSpace(u[n])

\* C11 as stated: an input whose only opening marker has no closing marker
\* after it gives no directive and a visible text equal to the input, and in
\* general the first unterminated opening marker and all that follows it end
\* the visible text unchanged
C11_AsStated ==
    (turn.pc = "done" /\ Unterminated(turn.original) # {}) =>
        LET i == Min(Unterminated(turn.original))
        IN  /\ EndsWith(turn.response, SubSeq(turn.original, i, Len(turn.original)))
            /\ OpensAt(turn.original) = {i} =>
                  (turn.results = <<>> /\ last.ops = <<>> /\ turn.response = turn.original)

\* C11: an input whose only opening marker has no closing marker after it
\* gives no directive, nothing is executed, and the visible text is the input
\* less its leading and trailing whitespace; in general the first
\* unterminated opening marker and all that follows it end the visible text,
\* less the trailing whitespace
C11_UnterminatedKept ==
    (turn.pc = "done" /\ Unterminated(turn.original) # {}) =>
        LET i == Min(Unterminated(turn.original))
        IN  /\ EndsWithTrimmed(turn.response, SubSeq(turn.original, i, Len(turn.original)))
            /\ OpensAt(turn.original) = {i} =>
                  (turn.results = <<>> /\ last.ops = <<>>
                   /\ IsTrimOf(turn.response, turn.original))

\* a lone opening marker between a space and a letter: the space is gone
C11_Witness ==
    /\ turn.pc = "done"
    /\ turn.original = <<" ">> \o OpenTag \o <<"x">>
    /\ turn.response = OpenTag \o <<"x">>
    /\ turn.results = <<>>

(***************************************************************************)
(* parsing and executing                                                   *)
(***************************************************************************)
\* C12: while parseAndExecuteTools goes through the response no operation is
\* executed: the files, the working directory, the undo ledger and the memory
\* stay as they are and no operation is put on record, so that every
\* directive is extracted before any directive is executed
C12_ParsingIsPure ==
    [][turn.pc = "tools" =>
          /\ last'.ops = last.ops
          /\ fs' = fs /\ currentDir' = currentDir /\ undoStack' = undoStack
          /\ memory' = memory]_vars

\* the text between the markers of a response that is one directive
BodyOf(response) == SubSeq(response, Len(OpenTag) + 1, Len(response) - Len(CloseTag))

\* C13: the operation name is the text before the first colon of the
\* directive body and the argument the text after it, both without their
\* leading and trailing whitespace, so that later colons stay in the
\* argument; a body without a colon is the name, trimmed, and the argument is
\* empty
C13_NameAndArgument ==
    (last.ops # <<>>) =>
        LET body == BodyOf(turn.original)
            colons == {i \in 1..Len(body) : body[i] = ":"}
            op == last.ops[1]
        IN  IF colons = {}
            THEN IsTrimOf(op.name, body) /\ op.arg = <<>>
            ELSE /\ IsTrimOf(op.name, SubSeq(body, 1, Min(colons) - 1))
                 /\ IsTrimOf(op.arg, SubSeq(body, Min(colons) + 1, Len(body)))

\* the body "a: :": the name is a, the argument is the second colon
C13_Witness ==
    /\ turn.pc = "done"
    /\ BodyOf(turn.original) = <<"a", ":", " ", ":">>
    /\ Len(last.ops) = 1
    /\ last.ops[1].name = <<"a">>
    /\ last.ops[1].arg = <<":">>
    /\ turn.results[1][2] = Val(<<"a">>)

\* the names the switch of parseAndExecuteTools knows
ToolNames == {Tool[f] : f \in DOMAIN Tool}

\* C14: once the pass of the main loop that sent a chat line is over, the
\* response's k directives have run one after the other from left to right
\* and have given exactly k results, the i-th labeled with the name of the
\* i-th directive; an unknown name gives the labeled result "Unknown tool",
\* and no directive keeps the directives after it from running
C14_EveryDirectiveRuns ==
    (turn.pc \in {"done", "dead"} /\ last.kind \in {"chat", "oneshot", "panic"}) =>
        LET bodies == Spans(turn.original).bodies
        IN  /\ ResultsFollow(turn.results, bodies)
            /\ Len(last.ops) = Len(bodies)
            /\ \A i \in 1..Len(bodies) :
                  /\ i <= Len(last.ops)
                  /\ last.ops[i].name = NameOf(bodies[i])
                  /\ ~last.ops[i].panic
                  /\ i <= Len(turn.results)
                  /\ NameOf(bodies[i]) \notin ToolNames =>
                        turn.results[i] = Labeled(NameOf(bodies[i]),
                                             <<Lit("Unknown tool: "), Val(NameOf(bodies[i]))>>)

(***************************************************************************)
(* the history of a turn                                                   *)
(***************************************************************************)
\* C15: when the response of a chat line held a directive, the end of the
\* turn adds exactly three entries after the user entry: the response as it
\* was received, a user entry with all the labeled results, and an assistant
\* entry for the summary, whatever the follow-up request returned
C15_ThreeEntries ==
    [][(turn.pc = "tools" /\ turn'.pc = "done" /\ Len(turn.results) > 0) =>
          LET n == Len(history)
          IN  /\ history[n].Role = "user"
              /\ Len(history') = n + 3
              /\ SubSeq(history', 1, n) = history
              /\ history'[n + 1] = ChatMessage("assistant", <<Val(turn.original)>>)
              /\ history'[n + 2].Role = "user"
              /\ SubSeq(history'[n + 2].Content, 2, Len(history'[n + 2].Content) - 1)
                    = Concat(turn.results)
              /\ history'[n + 3].Role = "assistant"]_vars

\* C16: while the directives of a response run only the request that sent
\* the user's message has been made; when the turn is over, in the chat loop
\* or in a launch with a message, one further request has been made if the
\* response held a directive and none if it held none, all directives of the
\* response have run by then, and no directive of the summary has
C16_OneFollowUp ==
    /\ turn.pc = "tools" => turn.requests = 1
    /\ ((turn.pc = "done" /\ last.kind = "chat") \/ (turn.pc = "dead" /\ last.kind = "oneshot")) =>
          LET k == Len(Spans(turn.original).bodies)
          IN  /\ turn.requests = IF k > 0 THEN 2 ELSE 1
              /\ Len(last.ops) = k
              /\ Len(turn.results) = k

\* C17: when the request for a chat line fails, the end of the turn takes
\* the user entry of the turn off the history and adds nothing, so that the
\* history is what it was before the line was typed; no directive has run
\* and the process goes on to the next line
C17_FailedTurnDropped ==
    [][(turn.pc = "tools" /\ turn.failed /\ last.kind = "chat" /\ turn'.pc # "tools") =>
          /\ turn'.pc = "done"
          /\ last'.ops = <<>>
          /\ history' = SubSeq(history, 1, Len(history) - 1)]_vars

\* the system prompt names this directory and this mode
Describes(content, dir, mode) == content[2] = Val(dir) /\ content[6] = Val(mode)

\* C18: between the passes of the main loop the history starts with the only
\* system entry it holds, and that entry names the current working directory
\* and the current mode, also after /mode, /cd and a cd directive; /mode
\* leaves the length of the history as it is
C18_SystemEntryCurrent ==
    [][turn'.pc \in {"prompt", "done"} =>
          /\ Len(history') >= 1
          /\ history'[1].Role = "system"
          /\ \A i \in 2..Len(history') : history'[i].Role # "system"
          /\ Describes(history'[1].Content, currentDir', currentMode')
          /\ last'.kind = "mode" => Len(history') = Len(history)]_vars

(***************************************************************************)
(* undo                                                                    *)
(***************************************************************************)
\* the file a write, replace or append was aimed at
Target(op) == resolvePath(op.pre.dir, TrimSpace(SplitN(op.arg, Bars, 2)[1]))

\* the last operation of the pass before this one that pushed a snapshot
LastMutation == last.ops[Len(last.ops)]

\* C19: when the pass before /undo ended with a write to a path that did not
\* exist, the path does not exist after the undo
C19_UndoOfNewFile ==
    [][(last'.kind = "undo" /\ last.ops # <<>> /\ LastMutation.name = Tool.write
        /\ ~Exists(LastMutation.pre.fs, Target(LastMutation)))
       => ~Exists(fs', Target(LastMutation))]_vars

\* g, which did not exist, was written on the model's directive and the undo
\* removed it
C19_Witness ==
    /\ last.kind = "undo"
    /\ last.ops[1].result = <<Lit("Undone: removed "), Val(Join(W0, <<"g">>))>>
    /\ ~Exists(fs, Join(W0, <<"g">>))
    /\ ~Exists(last.ops[1].pre.fs, Join(W0, <<"i", ".", "p", "n", "g">>))
    /\ last.ops[1].pre.fs[Join(W0, <<"g">>)].data = <<"B">>
    /\ \E i \in 1..Len(history) :
          /\ history[i].Role = "assistant"
          /\ Contains(history[i].Content[1].val, OpenTag \o Tool.write \o Colon)

\* C20: when the pass before /undo ended with a write, replace or append on
\* a file that existed with content C, the empty content included, the file
\* exists with content C after the undo
C20_UndoRestores ==
    [][(last'.kind = "undo" /\ last.ops # <<>>
        /\ LastMutation.name \in {Tool.write, Tool.replace, Tool.append}
        /\ IsFile(LastMutation.pre.fs, Target(LastMutation)))
       => /\ IsFile(fs', Target(LastMutation))
          /\ fs'[Target(LastMutation)].data = LastMutation.pre.fs[Target(LastMutation)].data]_vars
\* C21: in every reachable state the undo ledger holds at most UndoCap
\* entries
C21_LedgerBounded == Len(undoStack) <= UndoCap

\* a snapshot was pushed onto a full ledger: the batch of UndoCap + 1 appends
\* has run and the ledger holds UndoCap entries
C21_Witness ==
    /\ turn.pc = "done"
    /\ Len(last.ops) = UndoCap + 1
    /\ \A i \in 1..Len(last.ops) : ~last.ops[i].undoSame
    /\ Len(undoStack) = UndoCap

Nothing == Text("Nothing to undo")

\* C22: a push onto a full ledger drops the oldest entry and keeps the new
\* one; after a batch of UndoCap + 1 appends the ledger holds UndoCap entries;
\* every undo on a non-empty ledger pops one entry and takes back the most
\* recent append still in the file, and nothing else; an undo on the empty
\* ledger reports "Nothing to undo" and leaves every file alone
C22_EvictsOldest ==
    [][/\ (turn.pc = "tools" /\ Len(undoStack) = UndoCap /\ undoStack' # undoStack)
          => /\ Len(undoStack') = UndoCap
             /\ SubSeq(undoStack', 1, UndoCap - 1) = Tail(undoStack)
             /\ undoStack'[UndoCap].Path = FileF
             /\ undoStack'[UndoCap].Content = fs[FileF].data
       /\ (turn'.pc = "done" /\ last'.kind = "chat" /\ Len(last'.ops) = UndoCap + 1)
          => Len(undoStack') = UndoCap
       /\ (last'.kind = "undo" /\ undoStack # <<>>)
          => /\ Len(undoStack') = Len(undoStack) - 1
             /\ fs'[FileF].data \o <<"B">> = fs[FileF].data
             /\ fs' = [fs EXCEPT ![FileF] = fs'[FileF]]
       /\ (last'.kind = "undo" /\ undoStack = <<>>)
          => /\ last'.ops[1].result = Nothing
             /\ fs' = fs
             /\ undoStack' = <<>>]_vars

\* one batch of UndoCap + 1 appends, then UndoCap undos that took back all but
\* the first append, then one more undo that found nothing
C22_Witness ==
    /\ Len(history) = 5
    /\ last.kind = "undo"
    /\ last.ops[1].result = Nothing
    /\ fs[FileF].data = <<"A", "B">>
    /\ undoStack = <<>>
    /\ steps = 0

\* C23: /undo with an empty ledger is no failure: its result is "Nothing to
\* undo", the ledger stays empty, no file changes and the loop goes on
C23_EmptyUndo ==
    [][(steps' # steps /\ Len(last'.ops) = 1 /\ Kind(last'.ops[1].name) = "undo"
        /\ undoStack = <<>>)
       => /\ last'.kind = "undo"
          /\ last'.ops[1].result = Nothing
          /\ ~last'.ops[1].panic
          /\ last'.ops[1].wr = 0
          /\ undoStack' = <<>>
          /\ fs' = fs
          /\ turn'.pc = "done"]_vars

\* /undo was typed with nothing in the ledger
C23_Witness ==
    /\ last.kind = "undo"
    /\ last.ops[1].result = Nothing
    /\ last.ops[1].undoSame
    /\ undoStack = <<>>

Mutators == {Tool.write, Tool.replace, Tool.append, <<"/", "e", "d", "i", "t">>}

\* the step ran an operation, a directive of the response or a command typed
\* at the prompt; NewOp is its record
RanOp == last'.ops # <<>> /\ (Len(last'.ops) = Len(last.ops) + 1 \/ steps' # steps)
NewOp == last'.ops[Len(last'.ops)]

\* the content of the file at p, empty when there is no such file
ContentAt(f, p) == IF IsFile(f, p) THEN f[p].data ELSE <<>>

\* C24: right after write, replace, append or /edit changed the filesystem,
\* the top entry of the ledger holds the absolute path of the file the
\* operation names and the content that file had before the operation
C24_SnapshotBeforeMutation ==
    [][(RanOp /\ NewOp.name \in Mutators /\ fs' # fs)
       => /\ undoStack' # <<>>
          /\ undoStack'[Len(undoStack')].Path = Target(NewOp)
          /\ IsAbs(Target(NewOp))
          /\ undoStack'[Len(undoStack')].Content = ContentAt(fs, Target(NewOp))
          /\ ContentAt(fs', Target(NewOp)) # ContentAt(fs, Target(NewOp))
             \/ ~Exists(fs, Target(NewOp))]_vars

\* a replace directive has just changed a file and the top entry holds what
\* the file held before
C24_Witness ==
    /\ turn.pc = "tools"
    /\ last.ops # <<>>
    /\ LastMutation.name = Tool.replace
    /\ ~LastMutation.fsSame
    /\ undoStack # <<>>
    /\ undoStack[Len(undoStack)].Path = Target(LastMutation)
    /\ undoStack[Len(undoStack)].Content = ContentAt(LastMutation.pre.fs, Target(LastMutation))
    /\ undoStack[Len(undoStack)].Content # ContentAt(fs, Target(LastMutation))

\* the three parts of a replace argument, and the step ran a replace directive
\* on a file it could read
ReplaceParts == SplitN(NewOp.arg, Bars, 3)
Replacing ==
    /\ RanOp
    /\ NewOp.name = Tool.replace
    /\ Len(ReplaceParts) = 3
    /\ IsFile(fs, Target(NewOp))

\* old occurs in s
Occurs(s, old) == \E i \in 0..(Len(s) - Len(old)) : SubSeq(s, i + 1, i + Len(old)) = old

\* t is s with the leftmost occurrence of old replaced by new and nothing
\* else changed
FirstReplaced(s, old, new, t) ==
    \E i \in 0..(Len(s) - Len(old)) :
        /\ SubSeq(s, i + 1, i + Len(old)) = old
        /\ \A j \in 0..(i - 1) : SubSeq(s, j + 1, j + Len(old)) # old
        /\ t = SubSeq(s, 1, i) \o new \o SubSeq(s, i + Len(old) + 1, Len(s))

\* replace went ahead: auto mode, or ask mode with the answer y
Applied(op) == op.mode = ModeAuto \/ (op.mode = ModeAsk /\ Affirmative(op.ans))

ReplacesFirstOnly ==
    (Replacing /\ Occurs(fs[Target(NewOp)].data, ReplaceParts[2]) /\ Applied(NewOp))
    => /\ IsFile(fs', Target(NewOp))
       /\ FirstReplaced(fs[Target(NewOp)].data, ReplaceParts[2], ReplaceParts[3],
                        fs'[Target(NewOp)].data)

NotFoundChangesNothing ==
    /\ fs' = fs
    /\ undoStack' = undoStack
    /\ NewOp.ask = 0
    /\ NewOp.wr = 0

\* C25 as stated: whenever old is not in the file the result is "Text not
\* found", in every mode
C25_AsStated ==
    [][/\ (Replacing /\ ~Occurs(fs[Target(NewOp)].data, ReplaceParts[2]))
          => (NewOp.result = Text("Text not found") /\ NotFoundChangesNothing)
       /\ ReplacesFirstOnly]_vars

\* C25: a replace whose old text is not in the file leaves the file and the
\* ledger as they were and asks nothing; its result is "Text not found" in
\* auto and ask mode and the blocked notice in manual mode; a replace that goes
\* ahead replaces the leftmost occurrence of old and nothing else
C25_TextNotFound ==
    [][/\ (Replacing /\ ~Occurs(fs[Target(NewOp)].data, ReplaceParts[2]))
          => /\ NewOp.result = IF NewOp.mode = ModeManual THEN Blocked
                               ELSE Text("Text not found")
             /\ NotFoundChangesNothing
       /\ ReplacesFirstOnly]_vars

\* a replace in auto or ask mode did not find its old text
C25_Witness ==
    /\ last.ops # <<>>
    /\ LastMutation.name = Tool.replace
    /\ LastMutation.mode # ModeManual
    /\ LastMutation.result = Text("Text not found")
    /\ LastMutation.fsSame /\ LastMutation.undoSame
    /\ IsFile(fs, FileF) /\ fs[FileF].data = <<"A", "\n", "A">>

\* the step ran a write directive "path|||content" in auto mode
WriteParts == SplitN(NewOp.arg, Bars, 2)
WritingAuto ==
    /\ RanOp
    /\ NewOp.name = Tool.write
    /\ Len(WriteParts) = 2
    /\ NewOp.mode = ModeAuto

\* a file can be put at p: p is no directory and nothing above p is a
\* regular file
Creatable(f, p) ==
    /\ ~IsDir(f, p)
    /\ \A q \in DOMAIN f : IsFile(f, q) => ~HasPrefix(p, q \o Slash)

\* C26 as stated: after a write in auto mode the file is there with the given
\* content, whatever the path names
C26_AsStated ==
    [][WritingAuto
       => /\ NewOp.ask = 0
          /\ IsFile(fs', Target(NewOp))
          /\ fs'[Target(NewOp)].data = WriteParts[2]]_vars

\* C26: a write in auto mode prompts for nothing; when a file can be put at
\* the resolved path, the file is there afterwards with exactly the content
\* of the directive, its missing parent directories created; when the path is
\* a directory or lies under a regular file, the filesystem is left as it was
C26_WriteAuto ==
    [][WritingAuto
       => /\ NewOp.ask = 0
          /\ IF Creatable(fs, Target(NewOp))
             THEN /\ IsFile(fs', Target(NewOp))
                  /\ fs'[Target(NewOp)].data = WriteParts[2]
                  /\ IsDir(fs', Dir(Target(NewOp)))
             ELSE fs' = fs]_vars

\* a write in auto mode has made a file under two directories that did not
\* exist
C26_Witness ==
    /\ last.ops # <<>>
    /\ LastMutation.name = Tool.write
    /\ LastMutation.mode = ModeAuto
    /\ LastMutation.ask = 0
    /\ ~Exists(LastMutation.pre.fs, Dir(Target(LastMutation)))
    /\ ~Exists(LastMutation.pre.fs, Dir(Dir(Target(LastMutation))))
    /\ IsFile(fs, Target(LastMutation))
    /\ fs[Target(LastMutation)].data = <<"B">>

\* C27: every operation that was run returned a result; none panicked and
\* took the process down with it
C27_HandlersReturn ==
    /\ last.kind # "panic"
    /\ \A i \in DOMAIN last.ops : ~last.ops[i].panic

\* the step ran a write or append directive that went ahead and whose file
\* could not be opened
WriteFailed ==
    /\ RanOp
    /\ NewOp.name \in {Tool.write, Tool.append}
    /\ Len(SplitN(NewOp.arg, Bars, 2)) = 2
    /\ Applied(NewOp)
    /\ ~CanOpenForWrite(IF NewOp.name = Tool.write
                        THEN MkdirAll(fs, Dir(Target(NewOp))).fs ELSE fs,
                        Target(NewOp))

\* C28: when the filesystem write of a write or append fails, the result
\* carries an error and no notice of success
C28_FailureVisible ==
    [][WriteFailed
       => /\ HasPiece(NewOp.result, "Error: ")
          /\ ~HasPiece(NewOp.result, "Written: ")
          /\ ~HasPiece(NewOp.result, "Appended to ")]_vars

\* every frame on the terminal has a clearing of the line after it
LineClear(tty) ==
    \A i \in 1..Len(tty) : tty[i] = "frame" => \E j \in (i + 1)..Len(tty) : tty[j] = "clear"

\* C29: whenever a chunk of the response or a result is printed, the
\* indicator's goroutine is not running and the indicator's line is cleared
C29_IndicatorStoppedFirst ==
    [][(Len(turn'.tty) = Len(turn.tty) + 1
        /\ turn'.tty[Len(turn'.tty)] \in {"chunk", "result"})
       => /\ turn.spinner # "loop"
          /\ LineClear(turn.tty)]_vars

\* C30: once /clear has run, the history holds the system entry and nothing
\* else
C30_ClearEmptiesHistory ==
    [][(steps' # steps /\ Len(last'.ops) = 1
        /\ last'.ops[1].name = <<"/", "c", "l", "e", "a", "r">>)
       => /\ Len(history') = 1
          /\ history'[1].Role = "system"]_vars

\* the directory a cd operation names
CdTarget(op) == resolvePath(op.pre.dir, IF op.arg = <<>> THEN HomeDir ELSE op.arg)

\* the step ran a cd directive or /cd
Cd == RanOp /\ NewOp.name = Tool.cd

SessionState(h, m, t, c, mem) == [History |-> h, Mode |-> m, Tokens |-> t, Cost |-> c, Memory |-> mem]

Saved(session) ==
    SessionState(session.History, session.Mode, session.Tokens, session.Cost, session.Memory)

\* the sessions of directory dir in the store, and the ones among them that
\* were saved last
SessionsOf(store, dir) == {id \in DOMAIN store : store[id].Dir = dir}
SavedLast(store, dir) ==
    {id \in SessionsOf(store, dir) :
        \A other \in SessionsOf(store, dir) : store[other].Updated <= store[id].Updated}

\* C32: the file /save writes reads back as the history, mode, token count,
\* cost and memory of the process that saved it, and a process started with
\* resume continues with what reads back from the session of its directory
\* that was saved last
C32_SessionLossless ==
    [][/\ sessions' # sessions
          => Saved(loadSession(sessions'[sessionID]))
             = SessionState(history, currentMode, turn.totalTokens, turn.totalCost, memory)
       /\ (turn'.processes # turn.processes /\ last'.kind = "resume"
           /\ SessionsOf(sessions, currentDir') # {})
          => \E id \in SavedLast(sessions, currentDir') :
                SessionState(history', currentMode', turn'.totalTokens, turn'.totalCost, memory')
                = Saved(loadSession(sessions[id]))]_vars

\* an absolute path in its shortest form: the root, or a slash followed by
\* names separated by single slashes, none of them ".", ".." or empty
Normalized(p) ==
    \/ p = Root
    \/ /\ IsAbs(p)
       /\ \A i \in 1..Len(Segments(Tail(p))) : Segments(Tail(p))[i] \notin {<<>>, Dot, DotDot}

\* the names of path below dir, with "." and empty names dropped and ".."
\* taking away the name before it
RECURSIVE Walk(_, _)
Walk(from, names) ==
    IF names = <<>> THEN from
    ELSE IF Head(names) \in {<<>>, Dot} THEN Walk(from, Tail(names))
    ELSE IF Head(names) = DotDot
         THEN Walk(IF from = <<>> THEN from ELSE SubSeq(from, 1, Len(from) - 1), Tail(names))
    ELSE Walk(Append(from, Head(names)), Tail(names))

Below(dir, path) ==
    LET Names(d) == IF d = Root THEN <<>> ELSE Segments(Tail(d))
        AsPath(names) == IF names = <<>> THEN Root ELSE Slash \o JoinSegs(names)
    IN  AsPath(Walk(Names(dir), Segments(path)))

\* C33: resolvePath gives an absolute path in its shortest form; it gives back
\* a path that already is one; a relative path that is not the home shorthand
\* resolves to the path reached from the current directory; and resolving the
\* result again, in whatever directory, gives the result
C33_ResolveNormalizes ==
    /\ turn.pc \in {"resolved", "again"}
       => /\ Normalized(turn.out)
          /\ Normalized(turn.path) => turn.out = turn.path
          /\ (~IsAbs(turn.path) /\ ~HasPrefix(turn.path, Tilde))
             => turn.out = Below(turn.dir, turn.path)
    /\ turn.pc = "again" => turn.again = turn.out

\* a relative path that climbs out of its directory was resolved, and resolved
\* again in another directory
C33_Witness ==
    /\ turn.pc = "again"
    /\ turn.path = <<".", ".", "/", "a">>
    /\ turn.dir = Join(W0, <<"d">>)
    /\ turn.out = Join(W0, <<"a">>)
    /\ currentDir = Root

\* C34: the mode is auto, ask or manual in every state, also in a process
\* that resumed a session and in every session file, so one of the three
\* gate rules applies and cycleMode moves on to another of the three
C34_ModeIsOneOfThree ==
    /\ currentMode \in Modes
    /\ Cardinality({mode \in Modes : mode = currentMode}) = 1
    /\ cycleMode(currentMode) \in Modes \ {currentMode}
    /\ \A id \in DOMAIN sessions : sessions[id].Mode \in Modes

\* a process that resumed a session saved in manual mode
C34_Witness ==
    /\ last.kind = "resume"
    /\ turn.processes > 1
    /\ sessionID \in DOMAIN sessions
    /\ sessions[sessionID].Mode = ModeManual
    /\ currentMode = ModeManual

\* the step ran /undo with something in the ledger
Undoing == RanOp /\ Kind(NewOp.name) = "undo" /\ undoStack # <<>>

\* C35: a write records the absolute path it resolved in the directory it ran
\* in, and /undo, whatever the working directory is by then, restores or
\* removes the file at the recorded path and leaves every other file as it is
C35_UndoByAbsolutePath ==
    [][/\ (RanOp /\ NewOp.name = Tool.write /\ fs' # fs)
          => /\ undoStack'[Len(undoStack')].Path = Join(currentDir, <<"g">>)
             /\ NewOp.arg = <<"g">> \o Bars \o <<"B">>
       /\ Undoing
          => LET action == undoStack[Len(undoStack)]
             IN  /\ ContentAt(fs', action.Path) = action.Content
                 /\ \A p \in (DOMAIN fs \cup DOMAIN fs') \ {action.Path} :
                       p \in DOMAIN fs /\ p \in DOMAIN fs' /\ fs'[p] = fs[p]]_vars

\* g was written in /w, the working directory moved to /w/d, and /undo has put
\* back what /w/g held while /w/d/g is as it was
C35_Witness ==
    /\ last.ops # <<>>
    /\ Kind(LastMutation.name) = "undo"
    /\ LastMutation.pre.dir = Join(W0, <<"d">>)
    /\ currentDir = Join(W0, <<"d">>)
    /\ ContentAt(LastMutation.pre.fs, Join(W0, <<"g">>)) = <<"B">>
    /\ ContentAt(fs, Join(W0, <<"g">>)) = <<"A">>
    /\ ContentAt(fs, Join(currentDir, <<"g">>)) = <<"D">>

\* the directory the directive after op finds itself in
DirAfter(op) ==
    IF op.name = Tool.cd /\ IsDir(op.pre.fs, CdTarget(op)) THEN CdTarget(op) ELSE op.pre.dir

\* the step ran one more directive of the response
NextDirective == turn.pc = "tools" /\ Len(last'.ops) = Len(last.ops) + 1

\* C36: each directive of a batch works in the directory the directives before
\* it have left: read shows the file of that directory, run starts its shell
\* there, write writes there, and the directive after a cd that succeeded
\* finds the new directory while those before it found the old one
C36_CdBeforeNextDirective ==
    [][NextDirective
       => /\ NewOp.name = Tool.read
             => NewOp.result =
                   IF IsFile(fs, Join(currentDir, NewOp.arg))
                   THEN <<Lit("--- "), Val(Join(currentDir, NewOp.arg)), Lit(" lines ---"),
                          Val(fs[Join(currentDir, NewOp.arg)].data)>>
                   ELSE <<Lit("Error: "), Val(Join(currentDir, NewOp.arg))>>
          /\ NewOp.name = Tool.run
             => /\ Len(NewOp.spawn) = 1
                /\ NewOp.spawn[1].dir = currentDir
          /\ NewOp.name = Tool.write
             => /\ ContentAt(fs', Join(currentDir, <<"g">>)) = <<"B">>
                /\ \A p \in DOMAIN fs \ {Join(currentDir, <<"g">>)} :
                      p \in DOMAIN fs' /\ fs'[p] = fs[p]
          /\ currentDir' = DirAfter(NewOp)
          /\ \A i \in 1..(Len(last'.ops) - 1) :
                last'.ops[i + 1].pre.dir = DirAfter(last'.ops[i])]_vars

\* a batch read g and ran x in /w, changed to /w/d, and read g and ran x there
C36_Witness ==
    /\ Len(last.ops) >= 5
    /\ last.ops[1].name = Tool.read
    /\ last.ops[1].result = <<Lit("--- "), Val(Join(W0, <<"g">>)), Lit(" lines ---"),
                              Val(<<"A">>)>>
    /\ last.ops[2].spawn = <<[prog |-> "sh", arg |-> <<"x">>, dir |-> W0]>>
    /\ last.ops[3].name = Tool.cd
    /\ ~last.ops[3].dirSame
    /\ last.ops[4].result = <<Lit("--- "), Val(Join(W0, <<"d", "/", "g">>)), Lit(" lines ---"),
                              Val(<<"D">>)>>
    /\ last.ops[5].spawn = <<[prog |-> "sh", arg |-> <<"x">>, dir |-> Join(W0, <<"d">>)]>>

\* the characters of the two markers of a span
MarkerChars == Len(OpenTag) + Len(CloseTag)

\* C37: every pass of the loop of parseAndExecuteTools makes the response
\* shorter by at least the two markers of the span it cut out, the directives
\* executed so far and the text left never exceed the length of the response
\* the model gave, and the loop is left
C37_LoopTerminates ==
    /\ [][(turn.pc = "tools" /\ turn'.pc = "tools" /\ last'.ops # last.ops)
          => /\ Len(turn'.response) + MarkerChars <= Len(turn.response)
             /\ Len(last'.ops) = Len(last.ops) + 1
             /\ Len(turn'.results) = Len(last'.ops)]_vars
    /\ [](turn.pc = "tools"
          => MarkerChars * Len(last.ops) + Len(turn.response) <= Len(turn.original))
    /\ <>(turn.pc # "tools")

\* the loop is over after a second directive that only came to be when the
\* first span was cut out from between the halves of a marker
C37_Witness ==
    /\ turn.pc = "tools"
    /\ turn.original = <<"<", "t", "o">> \o SpanA \o <<"o", "l", ">">> \o CloseTag
    /\ Len(last.ops) = 2
    /\ last.ops[2].name = <<>>
    /\ turn.response = <<>>
    /\ ~Scan(turn.response).found

\* C38: once stopThinking has returned, the goroutine showThinking started
\* has ended
C38_IndicatorEnded ==
    turn.pc \in {"tools", "done"} => turn.spinner = "exited"

\* C39: detectProject run once more over the directory the process is in,
\* with the files as they were, finds the project kind it found before
C39_KindDeterministic ==
    [][(Cd /\ CdTarget(NewOp) = currentDir /\ fs' = fs) => projectType' = projectType]_vars

====
